---- MODULE Spec2Model ----
(***************************************************************************)
(* Verification model of the pet-adoption data layer: the domain adapter   *)
(* (services/api/animal-adapter.ts), the registry client and proxy route   *)
(* (services/api/animal-api.ts, app/api/animals/route.ts), the query hooks *)
(* (hooks/use-pets.ts) and the query client configuration                  *)
(* (lib/react-query.ts).                                                   *)
(*                                                                         *)
(* Text is modelled as a sequence of characters.  A character is a string: *)
(* an ASCII character stands for itself, a Hangul syllable is written by   *)
(* its romanisation ("nyeon" "saeng" is the two-syllable word for "year of *)
(* birth", "gae" "wol" is "months", "sal" is "years old", "il" "mi" "man"  *)
(* is "less than ... days").                                               *)
(***************************************************************************)
EXTENDS Integers, Sequences, FiniteSets, TLC

VARIABLES
    fn,         \* adapter harness: the function under evaluation
    arg,        \* adapter harness: its argument
    ret,        \* adapter harness: its result (meaningful once done)
    done,       \* adapter harness: the function has been applied
    listCorpus, \* full listing: number of animals the registry holds
    listPages,  \* full listing: data.pages of the infinite query
    listFetch,  \* full listing: "idle", "first" (initial fetch) or "next"
    listParam,  \* full listing: pageParam of the request in flight
    listStatus, \* full listing: "pending", "success" or "error"
    listMounted, \* full listing: the adoption page is mounted
    listRefetched, \* full listing: the pages a refetch in flight has got so far
    cache,      \* query cache: the state of the query of each key
    net,        \* query cache: runs of a query function still in flight
    nextId,     \* query cache: number of the next run of a query function
    obs,        \* query cache: the mounted consumers and what they render
    late,       \* query cache: superseded runs that came back with data
    favorites,  \* pet store: the ids marked as favorite, in the order added
    searchFilters,    \* pet store: the value of each search filter
    selectedCategory, \* pet store: "adoption" or "posts"
    lastCall,   \* pet store: the last action called (history)
    storage,    \* pet store: the item 'pet-client-store' of localStorage
    hook,       \* hooks: the hook the component uses
    input,      \* useDebounce: the value (or callback) passed in
    debounced,  \* useDebounce: the state the hook returns
    timer,      \* useDebounce: the pending timeout and the value it holds
    held,       \* useDebounce: ticks the input has been what it is
    changes,    \* useDebounce: number of changes of the input so far
    burstRuns,  \* useDebouncedCallback: runs of the callback in this burst
    sinceInvoke,  \* useDebouncedCallback: ticks since the last invocation
    lastToastRef, \* useToastDebounce: lastToastRef.current
    shownAgo,   \* useToastDebounce: ticks since each message was displayed
    display,    \* useToastDebounce: the last display of a toast
    notifications, \* notification store: the list, newest first
    unreadCount, \* notification store: the counter of unread notifications
    experience, \* care game: pet.experience
    mood, \* care game: pet.mood
    currentMission, \* care game: the mission on screen and its count
    isProcessing, \* care game: clicks are being ignored
    timeouts, \* care game: the pending timeouts
    rewards, \* care game: rewards the mission on screen has granted (history)
    isAuthenticated, \* auth store: state.isAuthenticated
    user, \* auth store: state.user: "null", "empty" (the object {}) or a user id
    role, \* auth store: state.role: "null", "undefined" (no value) or "user"
    isLoading, \* auth store: state.isLoading
    showLoginModal, \* auth store: state.showLoginModal
    showRegisterModal, \* auth store: state.showRegisterModal
    rememberMe, \* auth store: state.rememberMe
    authError, \* auth store: state.error: "null" or "message"
    logoutCall, \* logout() since the last sign-in: "idle" or "completed" (history)
    signedOut, \* SIGNED_OUT since the last sign-in: "none" or "handled" (history)
    awaited, \* auth store: calls of the store waiting in an await, per client call
    authStorage \* auth store: the item the persist middleware keeps in localStorage

avars == <<fn, arg, ret, done>>
lvars == <<listCorpus, listPages, listFetch, listParam, listStatus,
           listMounted, listRefetched>>
qvars == <<cache, net, nextId, obs, late>>
svars == <<favorites, searchFilters, selectedCategory, lastCall, storage>>
hvars == <<hook, input, debounced, timer, held, changes, burstRuns,
           sinceInvoke, lastToastRef, shownAgo, display>>
nvars == <<notifications, unreadCount>>
cvars == <<experience, mood, currentMission, isProcessing, timeouts, rewards>>
uvars == <<isAuthenticated, user, role, isLoading, showLoginModal,
           showRegisterModal, rememberMe, authError, logoutCall, signedOut,
           awaited, authStorage>>
vars == <<fn, arg, ret, done,
          listCorpus, listPages, listFetch, listParam, listStatus,
          listMounted, listRefetched,
          cache, net, nextId, obs, late,
          favorites, searchFilters, selectedCategory, lastCall, storage,
          hook, input, debounced, timer, held, changes, burstRuns,
          sinceInvoke, lastToastRef, shownAgo, display,
          notifications, unreadCount,
          experience, mood, currentMission, isProcessing, timeouts, rewards,
          isAuthenticated, user, role, isLoading, showLoginModal,
          showRegisterModal, rememberMe, authError, logoutCall, signedOut,
          awaited, authStorage>>

otherThanAdapter == <<lvars, qvars, svars, hvars, nvars, cvars, uvars>>
otherThanListing == <<avars, qvars, svars, hvars, nvars, cvars, uvars>>
otherThanQuery == <<avars, lvars, svars, hvars, nvars, cvars, uvars>>
otherThanStore == <<avars, lvars, qvars, hvars, nvars, cvars, uvars>>
otherThanHooks == <<avars, lvars, qvars, svars, nvars, cvars, uvars>>
otherThanNotifications == <<avars, lvars, qvars, svars, hvars, cvars, uvars>>
otherThanCare == <<avars, lvars, qvars, svars, hvars, nvars, uvars>>
otherThanAuth == <<avars, lvars, qvars, svars, hvars, nvars, cvars>>

(***************************************************************************)
(* Auth store (stores/auth-store.ts), its provider                         *)
(* (components/providers/auth-provider.tsx) and the OAuth callback page.   *)
(*                                                                         *)
(* user is "null", a signed-in user's id, or "empty" for the object {}     *)
(* that the SIGNED_OUT handler passes to setUser; role is "null", "user"   *)
(* or "undefined" (the role field of {}).  Of the store's state the fields *)
(* of initialState below are kept; tokens, permissions and the profile     *)
(* completion fields are left out.  An async function of the store is one  *)
(* action per stretch between two awaits, and a function can be called     *)
(* again while an earlier call of it is waiting.  The Supabase client      *)
(* decides when its subscribers hear SIGNED_OUT, so the handler is a step  *)
(* of its own that can happen at any time.                                 *)
(*                                                                         *)
(* logoutCall and signedOut record what has happened since a user was last *)
(* signed in on this page load.                                            *)
(***************************************************************************)
UserIds == {"u1", "u2"}

\* Calls of one client function that can be waiting at once
MaxAwaited == 2

\* The client functions the store awaits
ClientCalls == {"getSession", "signInWithPassword", "signInWithSocial", "signOut"}

\* const initialState: AuthState, the fields kept here
initialState ==
    [isAuthenticated |-> FALSE, isLoading |-> FALSE, user |-> "null",
     role |-> "null", error |-> "null", showLoginModal |-> FALSE,
     showRegisterModal |-> FALSE, rememberMe |-> FALSE]

\* The names partialize keeps, of the fields kept here
AuthPersistedNames == {"user", "role", "isAuthenticated", "rememberMe"}

\* partialize of the auth store
authPartialize(u, r, authenticated, remember) ==
    [has |-> AuthPersistedNames, user |-> u, role |-> r,
     isAuthenticated |-> authenticated, rememberMe |-> remember]

\* storage.setItem: JSON.stringify leaves out a property whose value is
\* undefined
authStringify(part) ==
    [kind |-> "json",
     has |-> {n \in part.has : n # "role" \/ part.role # "undefined"},
     user |-> part.user,
     role |-> IF part.role = "undefined" THEN "null" ELSE part.role,
     isAuthenticated |-> part.isAuthenticated,
     rememberMe |-> part.rememberMe]

\* No item in localStorage
AuthAbsent ==
    [kind |-> "absent", has |-> {}, user |-> "null", role |-> "null",
     isAuthenticated |-> FALSE, rememberMe |-> FALSE]

\* Hydration of the persist middleware: storage.getItem, then the stored
\* properties are spread over the initial state
authRehydrate(item) ==
    LET stored == IF item.kind = "json" THEN item.has ELSE {}
    IN [n \in DOMAIN initialState |->
           IF n \in stored THEN item[n] ELSE initialState[n]]

\* The store has been created over an empty localStorage and the provider
\* has mounted: initializeAuth() is waiting for getSession()
AuthAtRest ==
    /\ isAuthenticated = initialState.isAuthenticated
    /\ user = initialState.user
    /\ role = initialState.role
    /\ isLoading = initialState.isLoading
    /\ showLoginModal = initialState.showLoginModal
    /\ showRegisterModal = initialState.showRegisterModal
    /\ rememberMe = initialState.rememberMe
    /\ authError = initialState.error
    /\ logoutCall = "idle"
    /\ signedOut = "none"
    /\ awaited = [c \in ClientCalls |-> IF c = "getSession" THEN 1 ELSE 0]
    /\ authStorage = AuthAbsent

\* A call of the store reaches its await, and the promise it waits for
\* settles
Awaits(call) ==
    /\ awaited[call] < MaxAwaited
    /\ awaited' = [awaited EXCEPT ![call] = awaited[call] + 1]
Settles(call) ==
    /\ awaited[call] > 0
    /\ awaited' = [awaited EXCEPT ![call] = awaited[call] - 1]

\* setItem of the persist middleware after a set(): the new state,
\* partialized and serialised
PersistAuth ==
    authStorage' = authStringify(authPartialize(user', role',
                                                isAuthenticated', rememberMe'))

\* The objects handed to the store as the user: the extendedUser of the
\* store and of the provider has role 'user', the object the OAuth callback
\* page builds and {} have no role field
ExtendedUser(u) == [id |-> u, role |-> "user"]
CallbackUser(u) == [id |-> u, role |-> "undefined"]
EmptyObject == [id |-> "empty", role |-> "undefined"]

\* state.role = user.role
RoleOf(userObject) == userObject.role

\* A user is written into the store as signed in: the history starts over
SignedInSince ==
    /\ logoutCall' = "idle"
    /\ signedOut' = "none"

\* Object.assign(state, initialState)
AssignInitialState ==
    /\ isAuthenticated' = initialState.isAuthenticated
    /\ user' = initialState.user
    /\ role' = initialState.role
    /\ isLoading' = initialState.isLoading
    /\ showLoginModal' = initialState.showLoginModal
    /\ showRegisterModal' = initialState.showRegisterModal
    /\ rememberMe' = initialState.rememberMe
    /\ authError' = initialState.error

\* The app is loaded again: the store is created with initialState and
\* hydrated from the item, the calls that were waiting are gone with the
\* page, and the provider mounts and calls initializeAuth()
AuthReload ==
    /\ isAuthenticated' = authRehydrate(authStorage).isAuthenticated
    /\ user' = authRehydrate(authStorage).user
    /\ role' = authRehydrate(authStorage).role
    /\ rememberMe' = authRehydrate(authStorage).rememberMe
    /\ isLoading' = authRehydrate(authStorage).isLoading
    /\ showLoginModal' = authRehydrate(authStorage).showLoginModal
    /\ showRegisterModal' = authRehydrate(authStorage).showRegisterModal
    /\ authError' = authRehydrate(authStorage).error
    /\ logoutCall' = "idle"
    /\ signedOut' = "none"
    /\ awaited' = [c \in ClientCalls |-> IF c = "getSession" THEN 1 ELSE 0]
    /\ UNCHANGED authStorage
    /\ UNCHANGED otherThanAuth

\* initializeAuth(), after await getSession(): a stored session signs its
\* user in, no session (or a failure, which is caught) changes nothing
InitializeAuthResolves(session) ==
    /\ Settles("getSession")
    /\ UNCHANGED <<isLoading, showLoginModal, showRegisterModal, rememberMe,
                   authError>>
    /\ IF session = "none"
       THEN UNCHANGED <<isAuthenticated, user, role, logoutCall, signedOut,
                        authStorage>>
       ELSE /\ isAuthenticated' = TRUE
            /\ user' = ExtendedUser(session).id
            /\ role' = RoleOf(ExtendedUser(session))
            /\ SignedInSince
            /\ PersistAuth
    /\ UNCHANGED otherThanAuth

\* login(email, password, rememberMe), up to await signInWithPassword()
login(remember) ==
    /\ Awaits("signInWithPassword")
    /\ isLoading' = TRUE
    /\ authError' = "null"
    /\ rememberMe' = remember
    /\ UNCHANGED <<isAuthenticated, user, role, showLoginModal,
                   showRegisterModal, logoutCall, signedOut>>
    /\ PersistAuth
    /\ UNCHANGED otherThanAuth

\* login(), signInWithPassword() gave a user
LoginSucceeds(u) ==
    /\ Settles("signInWithPassword")
    /\ isAuthenticated' = TRUE
    /\ user' = ExtendedUser(u).id
    /\ role' = RoleOf(ExtendedUser(u))
    /\ isLoading' = FALSE
    /\ showLoginModal' = FALSE
    /\ SignedInSince
    /\ UNCHANGED <<showRegisterModal, rememberMe, authError>>
    /\ PersistAuth
    /\ UNCHANGED otherThanAuth

\* login() and loginWithSocial(), the catch branch
LoginFails(call) ==
    /\ call \in {"signInWithPassword", "signInWithSocial"}
    /\ Settles(call)
    /\ isLoading' = FALSE
    /\ authError' = "message"
    /\ UNCHANGED <<isAuthenticated, user, role, showLoginModal,
                   showRegisterModal, rememberMe, logoutCall, signedOut>>
    /\ PersistAuth
    /\ UNCHANGED otherThanAuth

\* loginWithSocial(provider), up to await signInWithSocial()
loginWithSocial ==
    /\ Awaits("signInWithSocial")
    /\ isLoading' = TRUE
    /\ authError' = "null"
    /\ UNCHANGED <<isAuthenticated, user, role, showLoginModal,
                   showRegisterModal, rememberMe, logoutCall, signedOut>>
    /\ PersistAuth
    /\ UNCHANGED otherThanAuth

\* loginWithSocial(), signInWithSocial() resolved: the browser is being
\* redirected and the store is left as it is (isLoading stays true)
SocialRedirects ==
    /\ Settles("signInWithSocial")
    /\ UNCHANGED <<isAuthenticated, user, role, isLoading, showLoginModal,
                   showRegisterModal, rememberMe, authError, logoutCall,
                   signedOut, authStorage>>
    /\ UNCHANGED otherThanAuth

\* setUser(user); setAuthenticated(true)
SetUserAuthenticated(userObject) ==
    /\ user' = userObject.id
    /\ role' = RoleOf(userObject)
    /\ isAuthenticated' = TRUE
    /\ SignedInSince
    /\ UNCHANGED <<isLoading, showLoginModal, showRegisterModal, rememberMe,
                   authError, awaited>>
    /\ PersistAuth
    /\ UNCHANGED otherThanAuth

\* onAuthStateChange, event === "SIGNED_IN" && session?.user
OnSignedIn(u) ==
    /\ u \in UserIds
    /\ SetUserAuthenticated(ExtendedUser(u))

\* AuthCallbackPage.handleAuthCallback, after await getSession() gave a
\* session
OnAuthCallback(u) ==
    /\ u \in UserIds
    /\ SetUserAuthenticated(CallbackUser(u))

\* logout(), up to await signOut(): isLoading = true
logout ==
    /\ Awaits("signOut")
    /\ isLoading' = TRUE
    /\ UNCHANGED <<isAuthenticated, user, role, showLoginModal,
                   showRegisterModal, rememberMe, authError, logoutCall,
                   signedOut>>
    /\ PersistAuth
    /\ UNCHANGED otherThanAuth

\* logout(), after await signOut(): both the try and the catch branch run
\* Object.assign(state, initialState)
LogoutCompletes ==
    /\ Settles("signOut")
    /\ AssignInitialState
    /\ logoutCall' = "completed"
    /\ UNCHANGED signedOut
    /\ PersistAuth
    /\ UNCHANGED otherThanAuth

\* onAuthStateChange, event === "SIGNED_OUT", whenever the client tells its
\* subscribers: setAuthenticated(false); setUser({} as any)
OnSignedOut ==
    /\ isAuthenticated' = FALSE
    /\ user' = EmptyObject.id
    /\ role' = RoleOf(EmptyObject)
    /\ signedOut' = "handled"
    /\ UNCHANGED <<isLoading, showLoginModal, showRegisterModal, rememberMe,
                   authError, logoutCall, awaited>>
    /\ PersistAuth
    /\ UNCHANGED otherThanAuth

\* register(userData): nothing is awaited, so the two writes are one step
register ==
    /\ isLoading' = FALSE
    /\ authError' = "null"
    /\ showRegisterModal' = FALSE
    /\ showLoginModal' = TRUE
    /\ UNCHANGED <<isAuthenticated, user, role, rememberMe, logoutCall,
                   signedOut, awaited>>
    /\ PersistAuth
    /\ UNCHANGED otherThanAuth

\* reset() of the auth store
resetAuth ==
    /\ AssignInitialState
    /\ UNCHANGED <<logoutCall, signedOut, awaited>>
    /\ PersistAuth
    /\ UNCHANGED otherThanAuth

showLogin ==
    /\ showLoginModal' = TRUE
    /\ showRegisterModal' = FALSE
    /\ UNCHANGED <<isAuthenticated, user, role, isLoading, rememberMe, authError,
                   logoutCall, signedOut, awaited>>
    /\ PersistAuth
    /\ UNCHANGED otherThanAuth

hideLogin ==
    /\ showLoginModal' = FALSE
    /\ UNCHANGED <<isAuthenticated, user, role, isLoading, showRegisterModal,
                   rememberMe, authError, logoutCall, signedOut, awaited>>
    /\ PersistAuth
    /\ UNCHANGED otherThanAuth

showRegister ==
    /\ showRegisterModal' = TRUE
    /\ showLoginModal' = FALSE
    /\ UNCHANGED <<isAuthenticated, user, role, isLoading, rememberMe, authError,
                   logoutCall, signedOut, awaited>>
    /\ PersistAuth
    /\ UNCHANGED otherThanAuth

hideRegister ==
    /\ showRegisterModal' = FALSE
    /\ UNCHANGED <<isAuthenticated, user, role, isLoading, showLoginModal,
                   rememberMe, authError, logoutCall, signedOut, awaited>>
    /\ PersistAuth
    /\ UNCHANGED otherThanAuth

\* setLoading(loading)
setLoading(loading) ==
    /\ isLoading' = loading
    /\ UNCHANGED <<isAuthenticated, user, role, showLoginModal,
                   showRegisterModal, rememberMe, authError, logoutCall,
                   signedOut, awaited>>
    /\ PersistAuth
    /\ UNCHANGED otherThanAuth

\* setError(error) and clearError() (setError(null))
setError(e) ==
    /\ authError' = e
    /\ UNCHANGED <<isAuthenticated, user, role, isLoading, showLoginModal,
                   showRegisterModal, rememberMe, logoutCall, signedOut,
                   awaited>>
    /\ PersistAuth
    /\ UNCHANGED otherThanAuth

toggleRememberMe ==
    /\ rememberMe' = ~rememberMe
    /\ UNCHANGED <<isAuthenticated, user, role, isLoading, showLoginModal,
                   showRegisterModal, authError, logoutCall, signedOut,
                   awaited>>
    /\ PersistAuth
    /\ UNCHANGED otherThanAuth

(***************************************************************************)
(* Pet store (stores/pet-store.ts)                                         *)
(***************************************************************************)

MaxPetId == 3
PetIds == 1..MaxPetId
Categories == {"adoption", "posts"}
StoreFilterNames == {"gender", "keyword", "location", "species"}

\* A filter of searchFilters is "absent" when the object has no property of
\* that name, "undefined" when it has the property with the value undefined
\* (setSearchFilters({keyword: undefined}) leaves one), or its value
\* initialState: searchFilters is {}, no favorites, the adoption category
NoFilters == [n \in StoreFilterNames |-> "absent"]
NoCall == [op |-> "none", petId |-> 0, was |-> FALSE]
PersistedNames == {"searchFilters", "favorites", "selectedCategory"}

\* partialize: the three properties of the state that are persisted
partialize(favs, filters, category) ==
    [has |-> PersistedNames, searchFilters |-> filters,
     favorites |-> favs, selectedCategory |-> category]

\* JSON.stringify of the partialized state: of the properties an object has
\* it keeps those whose value is defined, so a property set to undefined is
\* not in the text
stringify(part) ==
    [kind |-> "json", has |-> part.has,
     searchFilters |-> {<<n, part.searchFilters[n]>> :
                           n \in {m \in StoreFilterNames :
                                      part.searchFilters[m]
                                          \notin {"absent", "undefined"}}},
     favorites |-> part.favorites,
     selectedCategory |-> part.selectedCategory]

\* What localStorage may hold besides what the store wrote: nothing, a text
\* that is not JSON, and JSON of another shape (a category that is none of
\* the two, nothing else)
Absent ==
    [kind |-> "absent", has |-> {}, searchFilters |-> {},
     favorites |-> << >>, selectedCategory |-> ""]
NotJson == [Absent EXCEPT !.kind = "notJson"]
WrongShape ==
    [Absent EXCEPT !.kind = "json", !.has = {"selectedCategory"},
                   !.selectedCategory = "bogus"]

\* Hydration of the persist middleware: getItem and JSON.parse, an exception
\* of which is caught and leaves the initial state; then the stored
\* properties are spread over the initial state, unvalidated.  The parsed
\* searchFilters has the properties of the text and no other
rehydrate(item) ==
    LET stored == IF item.kind = "json" THEN item.has ELSE {}
    IN [favorites |-> IF "favorites" \in stored THEN item.favorites
                      ELSE << >>,
        searchFilters |->
            IF "searchFilters" \in stored
            THEN [n \in StoreFilterNames |->
                     IF \E pair \in item.searchFilters : pair[1] = n
                     THEN (CHOOSE pair \in item.searchFilters : pair[1] = n)[2]
                     ELSE "absent"]
            ELSE NoFilters,
        selectedCategory |-> IF "selectedCategory" \in stored
                             THEN item.selectedCategory ELSE "adoption",
        error |-> IF item.kind = "notJson" THEN "caught" ELSE "none"]

\* setItem after a mutation: the new state, partialized and serialised
Persist ==
    storage' = stringify(partialize(favorites', searchFilters',
                                    selectedCategory'))

StoreAtRest ==
    /\ favorites = << >>
    /\ searchFilters = NoFilters
    /\ selectedCategory = "adoption"
    /\ lastCall = NoCall
    /\ storage = Absent

\* Array.prototype.includes
includes(list, x) == \E i \in 1..Len(list) : list[i] = x

\* isFavorite(petId)
isFavorite(petId) == includes(favorites, petId)

favoritesWithAdded(list, petId) == Append(list, petId)

\* The favorites after toggleFavorite(petId): without petId when it was in
\* the list, with petId at the end when it was not
favoritesToggled(list, petId) ==
    IF includes(list, petId)
    THEN SelectSeq(list, LAMBDA id : id # petId)
    ELSE Append(list, petId)

toggleFavorite(petId) ==
    /\ favorites' = favoritesToggled(favorites, petId)
    /\ lastCall' = [op |-> "toggleFavorite", petId |-> petId,
                    was |-> isFavorite(petId)]
    /\ UNCHANGED <<searchFilters, selectedCategory>>
    /\ Persist
    /\ UNCHANGED otherThanStore

\* The value a property has in an object given as its pairs in the order set
\* (the last pair of the name)
ValueIn(o, name) ==
    LET at == {i \in 1..Len(o) : o[i][1] = name}
    IN o[CHOOSE i \in at : \A j \in at : j <= i][2]

\* setSearchFilters(filters): { ...state.searchFilters, ...filters }; every
\* property filters has is written, one with the value undefined as such
setSearchFilters(filters) ==
    /\ searchFilters' =
           [n \in StoreFilterNames |->
               IF \E i \in 1..Len(filters) : filters[i][1] = n
               THEN ValueIn(filters, n) ELSE searchFilters[n]]
    /\ lastCall' = [NoCall EXCEPT !.op = "setSearchFilters"]
    /\ UNCHANGED <<favorites, selectedCategory>>
    /\ Persist
    /\ UNCHANGED otherThanStore

clearFilters ==
    /\ searchFilters' = NoFilters
    /\ lastCall' = [NoCall EXCEPT !.op = "clearFilters"]
    /\ UNCHANGED <<favorites, selectedCategory>>
    /\ Persist
    /\ UNCHANGED otherThanStore

setSelectedCategory(category) ==
    /\ selectedCategory' = category
    /\ lastCall' = [NoCall EXCEPT !.op = "setSelectedCategory"]
    /\ UNCHANGED <<favorites, searchFilters>>
    /\ Persist
    /\ UNCHANGED otherThanStore

\* reset(): Object.assign(state, initialState)
reset ==
    /\ favorites' = << >>
    /\ searchFilters' = NoFilters
    /\ selectedCategory' = "adoption"
    /\ lastCall' = [NoCall EXCEPT !.op = "reset"]
    /\ Persist
    /\ UNCHANGED otherThanStore

\* The app is loaded again: the store is created with initialState and
\* hydrated from the item
Reload ==
    /\ favorites' = rehydrate(storage).favorites
    /\ searchFilters' = rehydrate(storage).searchFilters
    /\ selectedCategory' = rehydrate(storage).selectedCategory
    /\ lastCall' = [NoCall EXCEPT !.op = "reload"]
    /\ UNCHANGED storage
    /\ UNCHANGED otherThanStore

\* The item is lost or overwritten from outside the store
Corrupt(item) ==
    /\ storage # item
    /\ storage' = item
    /\ lastCall' = [NoCall EXCEPT !.op = "corrupt"]
    /\ UNCHANGED <<favorites, searchFilters, selectedCategory>>
    /\ UNCHANGED otherThanStore

(***************************************************************************)
(* Debounce hooks (hooks/use-debounce.ts, hooks/use-toast-debounce.ts)     *)
(* Time advances in ticks; a delay is a number of ticks.                   *)
(***************************************************************************)

DebounceDelay == 2
ToastDelay == 2
MaxChanges == 3
HookValues == {"a", "b"}
Messages == {"saved", "failed"}
ToastKinds == {"success", "error", "toast", "info", "warning"}

NoTimer == [left |-> -1, value |-> ""]
NoToast == [message |-> "", ago |-> 0]
\* No display yet; gap is the distance in ticks of a display from the
\* display before it of the same message (-1: there was none)
NoDisplay == [kind |-> "", message |-> "", gap |-> -1]

HooksAtRest ==
    /\ hook = "none"
    /\ input = "" /\ debounced = "" /\ timer = NoTimer
    /\ held = 0 /\ changes = 0
    /\ burstRuns = 0 /\ sinceInvoke = 0
    /\ lastToastRef = NoToast
    /\ shownAgo = [m \in Messages |-> -1]
    /\ display = NoDisplay

Capped(n, cap) == IF n >= cap THEN cap ELSE n

effectKeepsTimer(pending, value) ==
    IF pending = NoTimer
    THEN [left |-> DebounceDelay, value |-> value]
    ELSE pending

\* The effect of useDebounce on a change of value: the cleanup clears the
\* pending timeout and a new one is set for the new value
effect(pending, value) == [left |-> DebounceDelay, value |-> value]

\* The component renders with another value (useDebounce) or another
\* callback (useDebouncedCallback)
InputChanges(value) ==
    /\ hook \in {"useDebounce", "useDebouncedCallback"}
    /\ changes < MaxChanges
    /\ value # input
    /\ input' = value
    /\ timer' = effect(timer, value)
    /\ held' = 0
    /\ changes' = changes + 1
    /\ UNCHANGED <<hook, debounced, burstRuns, sinceInvoke, lastToastRef,
                   shownAgo, display>>
    /\ UNCHANGED otherThanHooks

\* The timeout fires: setDebouncedValue(value) with the value it was set for
TimerFires ==
    /\ timer.left = 0
    /\ debounced' = timer.value
    /\ timer' = NoTimer
    /\ UNCHANGED <<hook, input, held, changes, burstRuns, sinceInvoke,
                   lastToastRef, shownAgo, display>>
    /\ UNCHANGED otherThanHooks

\* The function useDebouncedCallback returned is called: it is the
\* callback held in the state, which runs at once
Invoke ==
    /\ hook = "useDebouncedCallback"
    /\ burstRuns' = Capped(burstRuns + 1, 2)
    /\ sinceInvoke' = 0
    /\ UNCHANGED <<hook, input, debounced, timer, held, changes,
                   lastToastRef, shownAgo, display>>
    /\ UNCHANGED otherThanHooks

\* One tick passes for a debounce hook; a timeout that is due fires first.
\* A burst of invocations ends when DebounceDelay ticks pass without one.
DebounceTick ==
    /\ hook \in {"useDebounce", "useDebouncedCallback"}
    /\ timer.left # 0
    /\ timer' = IF timer = NoTimer THEN NoTimer
                ELSE [timer EXCEPT !.left = timer.left - 1]
    /\ held' = Capped(held + 1, DebounceDelay)
    /\ sinceInvoke' = Capped(sinceInvoke + 1, DebounceDelay)
    /\ burstRuns' = IF sinceInvoke + 1 >= DebounceDelay THEN 0 ELSE burstRuns
    /\ UNCHANGED <<hook, input, debounced, changes, lastToastRef, shownAgo,
                   display>>
    /\ UNCHANGED otherThanHooks

\* success, error, toast, info or warning of useToastDebounce is called with
\* a message: ignored when the last displayed toast has the same message and
\* is younger than the delay, displayed otherwise
ToastIgnored(message) ==
    /\ lastToastRef # NoToast
    /\ lastToastRef.message = message
    /\ lastToastRef.ago < ToastDelay

Toast(kind, message) ==
    /\ hook = "useToastDebounce"
    /\ IF ToastIgnored(message)
       THEN UNCHANGED <<lastToastRef, shownAgo, display>>
       ELSE /\ lastToastRef' = [message |-> message, ago |-> 0]
            /\ shownAgo' = [shownAgo EXCEPT ![message] = 0]
            /\ display' = [kind |-> kind, message |-> message,
                           gap |-> shownAgo[message]]
    /\ UNCHANGED <<hook, input, debounced, timer, held, changes, burstRuns,
                   sinceInvoke>>
    /\ UNCHANGED otherThanHooks

\* One tick passes for the toast hook (ages stop counting at the delay)
ToastTick ==
    /\ hook = "useToastDebounce"
    /\ lastToastRef' = IF lastToastRef = NoToast THEN NoToast
                       ELSE [lastToastRef EXCEPT
                                !.ago = Capped(lastToastRef.ago + 1, ToastDelay)]
    /\ shownAgo' = [m \in Messages |->
                       IF shownAgo[m] = -1 THEN -1
                       ELSE Capped(shownAgo[m] + 1, ToastDelay)]
    /\ UNCHANGED <<hook, input, debounced, timer, held, changes, burstRuns,
                   sinceInvoke, display>>
    /\ UNCHANGED otherThanHooks

(***************************************************************************)
(* Notification store (stores/notification-store.ts)                       *)
(***************************************************************************)

MaxNotifications == 3
MaxNotificationId == 2
MaxUnreadCount == 4
NotificationIds == 1..MaxNotificationId
Notifications == [id : NotificationIds, isRead : BOOLEAN]

RECURSIVE NotificationLists(_)
NotificationLists(n) ==
    IF n = 0 THEN { << >> }
    ELSE LET prev == NotificationLists(n - 1)
         IN prev \cup {Append(l, x) : l \in {p \in prev : Len(p) = n - 1},
                                      x \in Notifications}

\* initialState
NotificationsAtRest ==
    /\ notifications = << >>
    /\ unreadCount = 0

\* notifications.filter(n => !n.isRead).length
Unread(list) == Len(SelectSeq(list, LAMBDA n : ~n.isRead))

\* Array.prototype.find by id: the position of the first notification with
\* the id, 0 when there is none
FindById(list, id) ==
    LET at == {i \in 1..Len(list) : list[i].id = id}
    IN IF at = {} THEN 0 ELSE CHOOSE i \in at : \A j \in at : i <= j

setNotifications(list) ==
    /\ notifications' = list
    /\ unreadCount' = Unread(list)
    /\ UNCHANGED otherThanNotifications

addNotification(notification) ==
    /\ Len(notifications) < MaxNotifications
    /\ unreadCount < MaxUnreadCount
    /\ notifications' = <<notification>> \o notifications
    /\ unreadCount' = IF ~notification.isRead THEN unreadCount + 1
                      ELSE unreadCount
    /\ UNCHANGED otherThanNotifications

markAsRead(id) ==
    /\ LET i == FindById(notifications, id)
       IN IF i # 0 /\ ~notifications[i].isRead
          THEN /\ notifications' = [notifications EXCEPT ![i].isRead = TRUE]
               /\ unreadCount' = unreadCount - 1
          ELSE UNCHANGED <<notifications, unreadCount>>
    /\ UNCHANGED otherThanNotifications

markAllAsRead ==
    /\ notifications' = [i \in 1..Len(notifications) |->
                            [notifications[i] EXCEPT !.isRead = TRUE]]
    /\ unreadCount' = 0
    /\ UNCHANGED otherThanNotifications

\* What removeNotification(id) takes off the counter: 1 when the first
\* notification with the id is unread
removeDecrement(list, id) ==
    LET i == FindById(list, id)
    IN IF i # 0 /\ ~list[i].isRead THEN 1 ELSE 0

removeNotification(id) ==
    /\ unreadCount' = unreadCount - removeDecrement(notifications, id)
    /\ notifications' = SelectSeq(notifications, LAMBDA n : n.id # id)
    /\ UNCHANGED otherThanNotifications

resetNotifications ==
    /\ notifications' = << >>
    /\ unreadCount' = 0
    /\ UNCHANGED otherThanNotifications

(***************************************************************************)
(* Virtual care game (app/care/page.tsx).  Time advances in ticks of       *)
(* TickMs milliseconds.                                                    *)
(***************************************************************************)

TickMs == 100
StartExperience == 25
MaxExperience == 50
TouchTarget == 100
TouchReleaseMs == 100
ChoiceReleaseMs == 1000
MissionClearMs == 2000

\* MISSIONS: type and reward of each mission
MissionIds == {"walk-100", "calm-down", "hospital", "payment"}
MissionType(id) ==
    CASE id = "walk-100" -> "touch"
      [] id \in {"calm-down", "hospital"} -> "choice"
      [] id = "payment" -> "payment"
      [] OTHER -> "none"
MissionReward(id) ==
    CASE id = "walk-100" -> 10 [] id = "calm-down" -> 15
      [] id = "hospital" -> 20 [] id = "payment" -> 25 [] OTHER -> 0
MissionMood(id) ==
    CASE id = "walk-100" -> "bored" [] id = "calm-down" -> "barking"
      [] OTHER -> "sick"
MissionChoices(id) ==
    IF id = "calm-down" THEN {"snack", "play", "stroke", "scold"}
    ELSE IF id = "hospital" THEN {"hospital"} ELSE {}

NoMission == [id |-> "none", currentCount |-> 0]

CareAtRest ==
    /\ experience = StartExperience
    /\ mood = "bored"
    /\ currentMission = NoMission
    /\ isProcessing = FALSE
    /\ timeouts = {}
    /\ rewards = 0

\* Math.min(current.experience + reward, current.maxExperience)
Rewarded(exp, reward) ==
    IF exp + reward <= MaxExperience THEN exp + reward ELSE MaxExperience

After(what, ms) == [what |-> what, left |-> ms]

\* The interval of the effect finds no mission and draws one; it is set when
\* the mission becomes null and fires 10 s later, after every timeout
generateRandomMission(id) ==
    /\ currentMission = NoMission
    /\ timeouts = {}
    /\ mood' = MissionMood(id)
    /\ currentMission' = [id |-> id, currentCount |-> 0]
    /\ rewards' = 0
    /\ UNCHANGED <<experience, isProcessing, timeouts>>
    /\ UNCHANGED otherThanCare

handleTouchMission ==
    /\ MissionType(currentMission.id) = "touch"
    /\ ~isProcessing
    /\ isProcessing' = TRUE
    /\ LET newCount == currentMission.currentCount + 1
       IN IF newCount >= TouchTarget
          THEN /\ experience' = Rewarded(experience, MissionReward(currentMission.id))
               /\ mood' = "happy"
               /\ currentMission' = NoMission
               /\ rewards' = IF experience' > experience THEN rewards + 1
                             ELSE rewards
               /\ timeouts' = timeouts \cup {After("clear", MissionClearMs),
                                              After("release", TouchReleaseMs)}
          ELSE /\ currentMission' = [currentMission EXCEPT !.currentCount = newCount]
               /\ timeouts' = timeouts \cup {After("release", TouchReleaseMs)}
               /\ UNCHANGED <<experience, mood, rewards>>
    /\ UNCHANGED otherThanCare

\* isCorrect: the snack for calm-down, the hospital for the hospital mission
IsCorrect(choice) == choice \in {"snack", "hospital"}

handleChoiceMission(choice) ==
    /\ MissionType(currentMission.id) = "choice"
    /\ ~isProcessing
    /\ isProcessing' = TRUE
    /\ IF IsCorrect(choice)
       THEN /\ experience' = Rewarded(experience, MissionReward(currentMission.id))
            /\ mood' = IF currentMission.id = "hospital" THEN "sick" ELSE "happy"
            /\ rewards' = IF experience' > experience THEN rewards + 1
                          ELSE rewards
            /\ timeouts' = timeouts \cup
                   {IF currentMission.id = "hospital"
                    THEN After("payment", MissionClearMs)
                    ELSE After("clear", MissionClearMs),
                    After("release", ChoiceReleaseMs)}
       ELSE /\ timeouts' = timeouts \cup {After("release", ChoiceReleaseMs)}
            /\ UNCHANGED <<experience, mood, rewards>>
    /\ UNCHANGED currentMission
    /\ UNCHANGED otherThanCare

handlePaymentMission ==
    /\ MissionType(currentMission.id) = "payment"
    /\ ~isProcessing
    /\ isProcessing' = TRUE
    /\ experience' = Rewarded(experience, MissionReward(currentMission.id))
    /\ mood' = "excited"
    /\ rewards' = IF experience' > experience THEN rewards + 1 ELSE rewards
    /\ timeouts' = timeouts \cup {After("clearAndRelease", MissionClearMs)}
    /\ UNCHANGED currentMission
    /\ UNCHANGED otherThanCare

Due(t) == t.left <= 0

\* A timeout that is due runs its callback
TimeoutFires(t) ==
    /\ t \in timeouts /\ Due(t)
    /\ timeouts' = timeouts \ {t}
    /\ isProcessing' = IF t.what \in {"release", "clearAndRelease"} THEN FALSE
                       ELSE isProcessing
    /\ currentMission' =
           IF t.what \in {"clear", "clearAndRelease"} THEN NoMission
           ELSE IF t.what = "payment" THEN [id |-> "payment", currentCount |-> 0]
           ELSE currentMission
    /\ rewards' = IF t.what = "release" THEN rewards ELSE 0
    /\ UNCHANGED <<experience, mood>>
    /\ UNCHANGED otherThanCare

\* TickMs pass; the timeouts that are due run first
CareTick ==
    /\ timeouts # {}
    /\ \A t \in timeouts : ~Due(t)
    /\ timeouts' = {[t EXCEPT !.left = t.left - TickMs] : t \in timeouts}
    /\ UNCHANGED <<experience, mood, currentMission, isProcessing, rewards>>
    /\ UNCHANGED otherThanCare

(***************************************************************************)
(* Text helpers                                                            *)
(***************************************************************************)

\* JavaScript undefined for a string-typed field (a one-element sequence no
\* real text equals, since every real character is a single symbol).
undefined == <<"undefined">>

\* !x of JavaScript for a string-or-undefined value
Falsy(s) == s = undefined \/ s = <<>>

Digits == {"0", "1", "2", "3", "4", "5", "6", "7", "8", "9"}

DigitVal(c) ==
    CASE c = "0" -> 0 [] c = "1" -> 1 [] c = "2" -> 2 [] c = "3" -> 3
      [] c = "4" -> 4 [] c = "5" -> 5 [] c = "6" -> 6 [] c = "7" -> 7
      [] c = "8" -> 8 [] c = "9" -> 9

Min(S) == CHOOSE x \in S : \A y \in S : x <= y

Unclamped(a, b) == b

\* Math.max of two numbers
Max0(a, b) == IF a >= b THEN a ELSE b

\* The literal pat occurs in s at position i
MatchAt(s, i, pat) ==
    /\ i >= 1
    /\ i + Len(pat) - 1 <= Len(s)
    /\ \A j \in 1..Len(pat) : s[i + j - 1] = pat[j]

\* String.prototype.includes
Includes(s, pat) == \E i \in 1..(Len(s) + 1) : MatchAt(s, i, pat)

\* Length of the run of digits of s that starts at position i (0 if none)
RECURSIVE DigitRun(_, _)
DigitRun(s, i) ==
    IF i <= Len(s) /\ s[i] \in Digits THEN 1 + DigitRun(s, i + 1) ELSE 0

\* parseInt on a text that starts with a digit: the value of the leading digits
RECURSIVE DigitsValue(_, _)
DigitsValue(s, n) ==
    IF n = 0 THEN 0 ELSE DigitsValue(s, n - 1) * 10 + DigitVal(s[n])

parseInt(s) == DigitsValue(s, DigitRun(s, 1))

\* String.prototype.toLowerCase: the letters A to Z are lowered; Hangul,
\* digits and punctuation have no case
LowerOf ==
    [A |-> "a", B |-> "b", C |-> "c", D |-> "d", E |-> "e", F |-> "f",
     G |-> "g", H |-> "h", I |-> "i", J |-> "j", K |-> "k", L |-> "l",
     M |-> "m", N |-> "n", O |-> "o", P |-> "p", Q |-> "q", R |-> "r",
     S |-> "s", T |-> "t", U |-> "u", V |-> "v", W |-> "w", X |-> "x",
     Y |-> "y", Z |-> "z"]
LowerChar(c) == IF c \in DOMAIN LowerOf THEN LowerOf[c] ELSE c

toLowerCase(s) == [i \in 1..Len(s) |-> LowerChar(s[i])]

\* Start positions of a match of /(\d+)<suffix>/ : a digit at i, digits up to
\* the suffix.  The leftmost one is the match; the greedy \d+ takes the whole run.
DigitsThenAt(s, i, suffix) ==
    /\ i >= 1 /\ i <= Len(s)
    /\ s[i] \in Digits
    /\ MatchAt(s, i + DigitRun(s, i), suffix)

DigitsThenStarts(s, suffix) == {i \in 1..Len(s) : DigitsThenAt(s, i, suffix)}

\* [matched, number]: the match of /(\d+)<suffix>/ and parseInt of its digits
MatchDigitsThen(s, suffix) ==
    LET starts == DigitsThenStarts(s, suffix)
    IN IF starts = {}
       THEN [matched |-> FALSE, number |-> 0]
       ELSE [matched |-> TRUE,
             number |-> parseInt(SubSeq(s, Min(starts), Len(s)))]

(***************************************************************************)
(* Domain adapter: services/api/animal-adapter.ts                          *)
(***************************************************************************)

DOG == <<"4", "1", "7", "0", "0", "0">>
CAT == <<"4", "2", "2", "0", "0", "0">>

mapSpeciesFromUpkind(upkind) ==
    IF upkind = DOG THEN "dog" ELSE IF upkind = CAT THEN "cat" ELSE "other"

ExtraSmallBreeds ==
    { <<"chi", "wa", "wa">>, <<"yo", "keu", "syeo">>, <<"mal", "ti", "jeu">>,
      <<"po", "me", "ra", "ni", "an">>, <<"pa", "pi", "yong">> }

SmallBreeds ==
    { <<"si", "chyu">>, <<"bi", "syong">>, <<"ko", "keo">>,
      <<"dak", "seu", "hun", "teu">>, <<"pu", "deul">>,
      <<"wel", "si", "ko", "gi">> }

LargeBreeds ==
    { <<"gol", "deun">>, <<"rae", "beu", "ra", "do">>, <<"sye", "peo", "deu">>,
      <<"heo", "seu", "ki">>, <<"do", "be", "reu", "man">>,
      <<"ro", "teu", "wa", "il", "reo">> }

ExtraLargeBreeds ==
    { <<"se", "in", "teu">>, <<"geu", "re", "i", "teu">>,
      <<"ma", "seu", "ti", "peu">>, <<"nyu", "peon", "deul", "raen", "deu">>,
      <<"a", "i", "ri", "si">> }

CatBreeds ==
    { <<"go", "yang", "i">>, <<"ko", "ri", "an", "syot", "he", "eo">>,
      <<"pe", "reu", "si", "an">>, <<"reo", "si", "an", "beul", "ru">>,
      <<"beu", "ri", "ti", "si", "syot", "he", "eo">> }

IncludesAny(s, pats) == \E p \in pats : Includes(s, p)

\* kindCd.toLowerCase() raises a TypeError on undefined
estimateSizeFromBreedThrows(kindCd) == kindCd = undefined

estimateSizeFromBreed(kindCd) ==
    LET breed == toLowerCase(kindCd)
    IN IF IncludesAny(breed, ExtraSmallBreeds) THEN "extra-small"
       ELSE IF IncludesAny(breed, SmallBreeds) THEN "small"
       ELSE IF IncludesAny(breed, LargeBreeds) THEN "large"
       ELSE IF IncludesAny(breed, ExtraLargeBreeds) THEN "extra-large"
       ELSE IF IncludesAny(breed, CatBreeds) THEN "small"
       ELSE "medium"

mapGenderFromSexCdThrows(sexCd) == sexCd = undefined

mapGenderFromSexCd(sexCd) ==
    LET c == toLowerCase(sexCd)
    IN IF c = <<"m">> THEN "male" ELSE IF c = <<"f">> THEN "female" ELSE "unknown"

\* AgeGroupOf with the puppy bound off by one (months <= 6)
AgeGroupOfLateYoung(years, months) ==
    IF years = 0 /\ months <= 6 THEN "puppy"
    ELSE IF years < 2 THEN "young"
    ELSE IF years < 7 THEN "adult"
    ELSE "senior"

\* The age-group rule at the end of calculateAgeGroup
AgeGroupOf(years, months) ==
    IF years = 0 /\ months < 6 THEN "puppy"
    ELSE IF years < 2 THEN "young"
    ELSE IF years < 7 THEN "adult"
    ELSE "senior"

NyeonSaengParen == <<"(", "nyeon", "saeng", ")">>
NyeonSaeng == <<"nyeon", "saeng">>
GaeWol == <<"gae", "wol">>
IlMiMan == <<"il", "mi", "man">>

FourDigitsAt(s, i) ==
    /\ i >= 1 /\ i + 3 <= Len(s)
    /\ \A k \in i..(i + 3) : s[k] \in Digits

\* /(\d{4})\([^)]*\)\(nyeon-saeng\)/ matches with its first digit at i
BirthYearWithDetailsAt(s, i) ==
    /\ FourDigitsAt(s, i)
    /\ MatchAt(s, i + 4, <<"(">>)
    /\ \E j \in (i + 5)..Len(s) :
          /\ s[j] = ")"
          /\ \A k \in (i + 5)..(j - 1) : s[k] # ")"
          /\ MatchAt(s, j + 1, NyeonSaengParen)

\* /(\d{4})\(nyeon-saeng\)/ matches with its first digit at i
BirthYearSimpleAt(s, i) ==
    /\ FourDigitsAt(s, i)
    /\ MatchAt(s, i + 4, NyeonSaengParen)

\* /^\d{4}$/
BareYear(s) == Len(s) = 4 /\ FourDigitsAt(s, 1)

\* /(\d+)/ : the first run of digits
FirstDigits(s) ==
    LET at == {i \in 1..Len(s) : s[i] \in Digits}
    IN IF at = {}
       THEN [matched |-> FALSE, number |-> 0]
       ELSE [matched |-> TRUE, number |-> parseInt(SubSeq(s, Min(at), Len(s)))]

\* age.match(...) raises a TypeError on undefined
calculateAgeGroupThrows(age) == age = undefined

\* years and months as the cascade of calculateAgeGroup sets them
AgeYearsMonths(age, currentYear) ==
    LET withDetails == {i \in 1..Len(age) : BirthYearWithDetailsAt(age, i)}
        simple == {i \in 1..Len(age) : BirthYearSimpleAt(age, i)}
    IN IF withDetails # {}
       THEN LET i == Min(withDetails)
                birthYear == parseInt(SubSeq(age, i, i + 3))
                years == Max0(0, currentYear - birthYear)
                dayMatch == MatchDigitsThen(age, IlMiMan)
            IN [years |-> years,
                months |-> IF dayMatch.matched /\ years = 0
                           THEN dayMatch.number \div 30 ELSE 0]
       ELSE IF simple # {}
       THEN LET i == Min(simple)
                birthYear == parseInt(SubSeq(age, i, i + 3))
            IN [years |-> Max0(0, currentYear - birthYear), months |-> 0]
       ELSE IF BareYear(age)
       THEN [years |-> Max0(0, currentYear - parseInt(age)), months |-> 0]
       ELSE IF Includes(age, GaeWol)
       THEN LET match == MatchDigitsThen(age, GaeWol)
            IN IF match.matched
               THEN [years |-> match.number \div 12, months |-> match.number % 12]
               ELSE [years |-> 0, months |-> 0]
       ELSE IF (Includes(age, <<"sal">>) \/ Includes(age, <<"nyeon">>))
               /\ ~Includes(age, NyeonSaeng)
       THEN LET match == FirstDigits(age)
            IN [years |-> IF match.matched THEN match.number ELSE 0, months |-> 0]
       ELSE [years |-> 0, months |-> 0]

calculateAgeGroup(age, currentYear) ==
    LET ym == AgeYearsMonths(age, currentYear)
    IN [years |-> ym.years, months |-> ym.months,
        ageGroup |-> AgeGroupOf(ym.years, ym.months)]

mapAdoptionStatusThrows(processState) == processState = undefined

mapAdoptionStatus(processState) ==
    LET state == toLowerCase(processState)
    IN IF Includes(state, <<"bo", "ho", "jung">>)
          \/ Includes(state, <<"gong", "go", "jung">>)
       THEN "available"
       ELSE IF Includes(state, <<"ip", "yang">>) \/ Includes(state, <<"jong", "ryo">>)
       THEN "adopted"
       ELSE IF Includes(state, <<"an", "rak", "sa">>)
               \/ Includes(state, <<"ja", "yeon", "sa">>)
       THEN "unavailable"
       ELSE "available"

\* /[\d.]+/ then parseFloat: the result is written as the decimal text that
\* parseFloat reads from the match (<<"NaN">> when it reads no digit)
NumChars == Digits \cup {"."}

RECURSIVE NumRun(_, _)
NumRun(s, i) ==
    IF i <= Len(s) /\ s[i] \in NumChars THEN 1 + NumRun(s, i + 1) ELSE 0

parseFloatText(m) ==
    LET whole == DigitRun(m, 1)
        frac == IF whole < Len(m) /\ m[whole + 1] = "." THEN DigitRun(m, whole + 2) ELSE 0
    IN IF whole + frac = 0 THEN <<"NaN">>
       ELSE IF frac = 0 THEN SubSeq(m, 1, whole)
       ELSE SubSeq(m, 1, whole + 1 + frac)

parseWeight(weight) ==
    IF Falsy(weight) THEN undefined
    ELSE LET at == {i \in 1..Len(weight) : weight[i] \in NumChars}
         IN IF at = {} THEN undefined
            ELSE LET i == Min(at)
                 IN parseFloatText(SubSeq(weight, i, i + NumRun(weight, i) - 1))

ColorSeparators == {"&", "+", ","}
Whitespace == {" "}
MiSang == <<"mi", "sang">>

\* String.prototype.split on a character class: n separators, n + 1 segments
RECURSIVE Split(_, _)
Split(s, seps) ==
    LET at == {i \in 1..Len(s) : s[i] \in seps}
    IN IF at = {} THEN <<s>>
       ELSE <<SubSeq(s, 1, Min(at) - 1)>> \o Split(SubSeq(s, Min(at) + 1, Len(s)), seps)

\* String.prototype.trim
trim(s) ==
    LET keep == {i \in 1..Len(s) : s[i] \notin Whitespace}
    IN IF keep = {} THEN <<>>
       ELSE SubSeq(s, Min(keep), CHOOSE x \in keep : \A y \in keep : x >= y)

NonEmpty(s) == Len(s) > 0

parseColors(colorCd) ==
    IF Falsy(colorCd) THEN <<MiSang>>
    ELSE LET colors == Split(colorCd, ColorSeparators)
         IN SelectSeq([i \in 1..Len(colors) |-> trim(colors[i])], NonEmpty)

createImageInfo(popfile1, popfile2) ==
    (IF ~Falsy(popfile1)
     THEN << [id |-> "1", url |-> popfile1, isMain |-> TRUE] >> ELSE << >>)
    \o
    (IF ~Falsy(popfile2) /\ popfile2 # popfile1
     THEN << [id |-> "2", url |-> popfile2, isMain |-> FALSE] >> ELSE << >>)

\* animalDataUtils.formatDate (animal-api.ts): YYYYMMDD -> YYYY.MM.DD
formatDate(dateStr) ==
    IF Falsy(dateStr) \/ Len(dateStr) # 8 THEN dateStr
    ELSE SubSeq(dateStr, 1, 4) \o <<".">> \o SubSeq(dateStr, 5, 6) \o <<".">>
         \o SubSeq(dateStr, 7, 8)

\* a || b of JavaScript on string-or-undefined values
OrElse(a, b) == IF Falsy(a) THEN b ELSE a

\* String.prototype.slice(-3)
SliceLast3(s) == SubSeq(s, Max0(1, Len(s) - 2), Len(s))

\* decimal text of a natural number (template literal `${index}`)
DigitChar(d) == CHOOSE c \in Digits : DigitVal(c) = d

RECURSIVE NatText(_)
NatText(n) == IF n < 10 THEN <<DigitChar(n)>> ELSE NatText(n \div 10) \o <<DigitChar(n % 10)>>

BanRyeoDongMul == <<"ban", "ryeo", "dong", "mul">>
NoSpecialMark == <<"teuk", "i", "sa", "hang", " ", "eops", "eum">>

\* animal.kindFullNm?.split("]")[1]?.trim() || animal.kindNm || default label
BreedName(animal) ==
    LET parts == IF animal.kindFullNm = undefined THEN << >>
                 ELSE Split(animal.kindFullNm, {"]"})
        second == IF Len(parts) >= 2 THEN trim(parts[2]) ELSE undefined
    IN OrElse(second, OrElse(animal.kindNm, BanRyeoDongMul))

\* The property accesses and calls of convertAbandonmentAnimalToPet that raise
\* a TypeError: a method call on an undefined field
convertAbandonmentAnimalToPetThrows(animal) ==
    \/ estimateSizeFromBreedThrows(OrElse(animal.kindNm, animal.kindFullNm))
    \/ mapGenderFromSexCdThrows(animal.sexCd)
    \/ calculateAgeGroupThrows(animal.age)
    \/ mapAdoptionStatusThrows(animal.processState)
    \/ animal.desertionNo = undefined

convertAbandonmentAnimalToPet(animal, index, currentYear) ==
    IF convertAbandonmentAnimalToPetThrows(animal)
    THEN [threw |-> TRUE]
    ELSE [threw |-> FALSE,
          id |-> OrElse(animal.desertionNo, <<"a", "n", "i", "m", "a", "l", "-">> \o NatText(index)),
          name |-> BreedName(animal) \o <<" ">> \o SliceLast3(animal.desertionNo),
          species |-> mapSpeciesFromUpkind(animal.upKindCd),
          age |-> calculateAgeGroup(animal.age, currentYear),
          gender |-> mapGenderFromSexCd(animal.sexCd),
          size |-> estimateSizeFromBreed(OrElse(animal.kindNm, animal.kindFullNm)),
          weight |-> parseWeight(animal.weight),
          color |-> parseColors(animal.colorCd),
          adoptionStatus |-> mapAdoptionStatus(animal.processState),
          images |-> createImageInfo(animal.popfile1, animal.popfile2),
          description |-> OrElse(animal.specialMark, NoSpecialMark),
          houseTrained |-> TRUE,
          spayedNeutered |-> (animal.neuterYn = <<"Y">>),
          microchipped |-> FALSE,
          vaccinated |-> TRUE,
          createdAt |-> formatDate(animal.happenDt),
          updatedAt |-> formatDate(animal.noticeSdt)]

(***************************************************************************)
(* Search pages: hooks/use-pets.ts (useSearchPets) and                     *)
(* searchResultAdapter.convertSearchResults                                *)
(***************************************************************************)

\* limit: 20 of the search request built by useSearchPets.queryFn
SearchLimit == 20

\* the literal 20 of useSearchPets.getNextPageParam
NextPageDivisor == 20

\* getNextPageParam returns undefined: there is no next page
NoNextPage == 0

\* Math.ceil(a / b) for a >= 0, b > 0
CeilDiv(a, b) == (a + b - 1) \div b

\* The page object of the search query.  The converted pets are left out of
\* the record: no pagination decision reads them.
convertSearchResults(totalCount, currentPage, itemsPerPage) ==
    [totalCount |-> totalCount,
     currentPage |-> currentPage,
     totalPages |-> CeilDiv(totalCount, itemsPerPage),
     hasNext |-> currentPage * itemsPerPage < totalCount,
     hasPrev |-> currentPage > 1]

\* searchGetNextPageParam with the comparison off by one (<=)
searchGetNextPageParamInclusive(lastPage) ==
    LET currentPage == IF lastPage.currentPage = 0 THEN 1 ELSE lastPage.currentPage
        totalPages == CeilDiv(lastPage.totalCount, NextPageDivisor)
    IN IF currentPage <= totalPages THEN currentPage + 1 ELSE NoNextPage

searchGetNextPageParam(lastPage) ==
    LET currentPage == IF lastPage.currentPage = 0 THEN 1 ELSE lastPage.currentPage
        totalPages == CeilDiv(lastPage.totalCount, NextPageDivisor)
    IN IF currentPage < totalPages THEN currentPage + 1 ELSE NoNextPage

\* hasNextPage of the infinite query: getNextPageParam gave a page
hasNextPageOf(nextPageParam) == nextPageParam # NoNextPage

(***************************************************************************)
(* Query layer: the query client (lib/react-query.ts), the query hooks     *)
(* (hooks/use-pets.ts), the registry client (services/api/animal-api.ts)   *)
(* and the proxy route (app/api/animals/route.ts).  The hooks are          *)
(* useQuery / useInfiniteQuery of @tanstack/react-query: one query per     *)
(* key, whose runs of the query function are handled by a retryer.         *)
(***************************************************************************)

\* The uses of the hooks that are told apart: useFeaturedPets(),
\* useSearchPets({keyword: 'aB'}), useSearchPets({keyword: ''}) (the search
\* sheet before anything is typed, no filters set), usePetDetail(id),
\* usePetDetail('') and useAllPets(filters)
QueryKeys ==
    {"featured", "search", "searchNoParams", "detail", "detailNoId", "list"}

MaxObservers == 2
MaxRequests == 4
MaxAttemptIndex == 6
Observers == 1..MaxObservers

MAX_RETRIES == 3
BASE_DELAY == 1000
MAX_DELAY == 30000
BACKOFF_MULTIPLIER == 2

\* error.status of an Error object, which has no such field (undefined)
NoStatus == 0
NoMessage == [text |-> "", code |-> 0]
NoError == [message |-> NoMessage, status |-> NoStatus]

\* What the registry answers: an HTTP status (0: no answer at all) and, for
\* a 200, the resultCode of the response header
UpstreamReplies ==
    {[http |-> 200, resultCode |-> "00"], [http |-> 200, resultCode |-> "99"],
     [http |-> 401, resultCode |-> ""], [http |-> 403, resultCode |-> ""],
     [http |-> 404, resultCode |-> ""], [http |-> 500, resultCode |-> ""],
     [http |-> 0, resultCode |-> ""]}

\* What happens between the browser and the route: 0 the route handler runs,
\* 401/403/404 the request is answered before it reaches the handler, -1 the
\* browser's fetch rejects
Hops == {0, 401, 403, 404, -1}

\* One request seen end to end: the registry is asked only when the route
\* handler runs
NoReply == [http |-> 0, resultCode |-> ""]
Exchanges ==
    {[hop |-> 0, reply |-> reply] : reply \in UpstreamReplies}
    \cup {[hop |-> hop, reply |-> NoReply] : hop \in Hops \ {0}}

ResponseOk(status) == status >= 200 /\ status <= 299

\* The route's call of the registry: throws on a failed fetch, on a status
\* that is not ok and on a resultCode other than "00"
fetchFromPublicAPI(reply) ==
    IF reply.http = 0
    THEN [threw |-> TRUE, message |-> [text |-> "fetch failed", code |-> 0]]
    ELSE IF ~ResponseOk(reply.http)
    THEN [threw |-> TRUE, message |-> [text |-> "HTTP Error", code |-> reply.http]]
    ELSE IF reply.resultCode # "00"
    THEN [threw |-> TRUE, message |-> [text |-> "resultMsg", code |-> 0]]
    ELSE [threw |-> FALSE, message |-> NoMessage]

\* GET /api/animals: every failure becomes a 500 with the error's message
RouteGET(reply) ==
    LET r == fetchFromPublicAPI(reply)
    IN IF r.threw
       THEN [status |-> 500, success |-> FALSE, message |-> r.message]
       ELSE [status |-> 200, success |-> TRUE, message |-> NoMessage]

\* The default message ('the API request failed', in Korean) of the error thrown for an answer
\* of the error thrown for an answer that is ok but not a success and
\* carries no message of its own
DefaultFailureMessage == [text |-> "API request failed", code |-> 0]

\* The browser's call of the route: the thrown value is a plain Error, so
\* its status field is undefined whatever the response status was
fetchFromInternalAPIOn(hop, routeResponse) ==
    IF hop = -1
    THEN [threw |-> TRUE,
          error |-> [message |-> [text |-> "fetch failed", code |-> 0],
                     status |-> NoStatus]]
    ELSE LET response == IF hop = 0 THEN routeResponse
                         ELSE [status |-> hop, success |-> FALSE,
                               message |-> NoMessage]
         IN IF ~ResponseOk(response.status)
            THEN [threw |-> TRUE,
                  error |-> [message |-> [text |-> "HTTP Error",
                                          code |-> response.status],
                             status |-> NoStatus]]
            ELSE IF ~response.success
            THEN [threw |-> TRUE,
                  error |-> [message |-> IF response.message = NoMessage
                                         THEN DefaultFailureMessage
                                         ELSE response.message,
                             status |-> NoStatus]]
            ELSE [threw |-> FALSE, error |-> NoError]

\* fetchFromInternalAPI('animals', params, 'GET')
fetchFromInternalAPI(hop, reply) == fetchFromInternalAPIOn(hop, RouteGET(reply))

\* The HTTP status a failure began with: the hop's, else the registry's
FailureStatus(hop, reply) == IF hop # 0 THEN hop ELSE reply.http

retryOnceMore(failureCount, error) ==
    IF error.status = 401 \/ error.status = 403 \/ error.status = 404
    THEN FALSE
    ELSE failureCount <= MAX_RETRIES

\* defaultOptions.queries.retry
retry(failureCount, error) ==
    IF error.status = 401 \/ error.status = 403 \/ error.status = 404
    THEN FALSE
    ELSE failureCount < MAX_RETRIES

\* Math.pow on natural numbers
RECURSIVE Pow(_, _)
Pow(b, e) == IF e = 0 THEN 1 ELSE b * Pow(b, e - 1)

\* defaultOptions.queries.retryDelay, in milliseconds
retryDelay(attemptIndex) ==
    LET backoff == BASE_DELAY * Pow(BACKOFF_MULTIPLIER, attemptIndex)
    IN IF backoff <= MAX_DELAY THEN backoff ELSE MAX_DELAY

\* The data of a query whose query function returned null
Null == -1

\* A query nobody has fetched yet.  data 0 is undefined, Null is null;
\* otherwise data is the number of the run whose result the cache holds.  retryer is the
\* number of the first run of the current fetch, waiting says that the
\* retryer sleeps between two runs, cause is the HTTP status the latest
\* failure of the current fetch began with, delay the length of the sleep
\* in progress (0: none), dataCause the HTTP status of a
\* failed exchange that lies under the data (0: the exchange went well).
\* empty says that the data lists no pet (data ?? [] has length 0),
\* pages is the number of pages the data holds (1 for the result of a
\* plain query), nextPageParam what getNextPageParam gives for the last of
\* them, hasNextPage that it gave a page.
FreshQuery ==
    [status |-> "pending", fetchStatus |-> "idle", data |-> 0,
     empty |-> TRUE, hasNextPage |-> FALSE,
     pages |-> 0, nextPageParam |-> NoNextPage,
     error |-> NoError, failureCount |-> 0, failureReason |-> NoError,
     retryer |-> 0, waiting |-> FALSE, delay |-> 0, retryCancelled |-> FALSE,
     stale |-> FALSE, meta |-> "none", cause |-> 0, dataCause |-> 0]

\* What a consumer renders of a query
View(s) ==
    [status |-> s.status, fetchStatus |-> s.fetchStatus, data |-> s.data,
     error |-> s.error, meta |-> s.meta, empty |-> s.empty,
     hasNextPage |-> s.hasNextPage]

Unmounted == [key |-> "none", view |-> View(FreshQuery)]

\* Every mounted consumer is notified of the new state of its query
Notify(c, consumers) ==
    [o \in Observers |->
        IF consumers[o].key = "none" THEN consumers[o]
        ELSE [key |-> consumers[o].key, view |-> View(c[consumers[o].key])]]

ObserversOf(k) == {o \in Observers : obs[o].key = k}
InFlight(k) == {r \in net : r.key = k}

\* The queries of two keys share no state, so one behaviour follows the
\* query of one key: the cache holds the query of the hook in use
CachesOfOneKey == {[k \in {key} |-> FreshQuery] : key \in QueryKeys}

QueryAtRest ==
    /\ cache = [k \in {"featured"} |-> FreshQuery]
    /\ net = {}
    /\ nextId = 1
    /\ obs = [o \in Observers |-> Unmounted]
    /\ late = {}

\* refetchOnMount true, retryOnMount by default: a consumer that mounts
\* fetches unless the cache holds data that is not stale
ShouldFetchOnMount(s) == s.data = 0 \/ s.stale

\* The 'fetch' transition of a query
StartFetch(s, id, meta) ==
    [s EXCEPT !.fetchStatus = "fetching",
              !.failureCount = 0,
              !.failureReason = NoError,
              !.retryer = id,
              !.waiting = FALSE,
              !.delay = 0,
              !.retryCancelled = FALSE,
              !.meta = meta,
              !.cause = 0,
              !.status = IF s.data = 0 THEN "pending" ELSE s.status,
              !.error = IF s.data = 0 THEN NoError ELSE s.error]

\* The page the query function of an infinite query asks for when it is
\* given no page parameter: pageParam = 1
FirstPageParam == 1

\* The hooks built on useInfiniteQuery
InfiniteKeys == {"search", "searchNoParams", "list"}

\* The first run of the fetch function of a fetch.  For an infinite query
\* that holds pages, fetchNextPage asks for one page, with the page
\* parameter getNextPageParam gave for the last page held; any other fetch
\* asks for every page held anew, one run after the other, beginning with
\* the first page.  index counts the pages of
\* this run of the fetch function, pages is the number it is to get and
\* empty says that the pages it got so far list nothing.
FirstRun(k, s, id, gen, meta) ==
    LET forward == meta = "forward" /\ s.data # 0
    IN [id |-> id, key |-> k, gen |-> gen,
        pageParam |-> IF forward THEN s.nextPageParam ELSE FirstPageParam,
        index |-> 1,
        pages |-> IF k \in InfiniteKeys /\ ~forward /\ s.pages > 1
                  THEN s.pages ELSE 1,
        empty |-> TRUE]

DeduplicatesNever(s, cancelRefetch) == FALSE

\* A fetch asked of a query that is already fetching joins the fetch in
\* progress, unless it may cancel it (a refetch over data already cached)
Deduplicates(s, cancelRefetch) ==
    s.fetchStatus # "idle" /\ ~(s.data # 0 /\ cancelRefetch)

\* Query.fetch: join the fetch in progress or begin a new one, whose first
\* run of the query function goes out at once.  A fetch that is cancelled
\* leaves its run in flight: the query functions pass no abort signal on.
QueryFetch(k, cancelRefetch, meta) ==
    IF Deduplicates(cache[k], cancelRefetch)
    THEN /\ cache' = [cache EXCEPT ![k].retryCancelled = FALSE]
         /\ UNCHANGED <<net, nextId>>
    ELSE /\ nextId <= MaxRequests
         /\ cache' = [cache EXCEPT ![k] = StartFetch(cache[k], nextId, meta)]
         /\ net' = net \cup {FirstRun(k, cache[k], nextId, nextId, meta)}
         /\ nextId' = nextId + 1

SupersededNever(s, r) == FALSE

\* A run belongs to a fetch that was cancelled since
Superseded(s, r) == r.gen # s.retryer

(***************************************************************************)
(* Full listing: hooks/use-pets.ts (useAllPets), the adoption page's       *)
(* handleLoadMore, getAbandonmentAnimals and GET /api/animals              *)
(***************************************************************************)

MaxCorpus == 41

\* numOfRows: 20 of the request built by useAllPets.queryFn
ListPageSize == 20

Min2(a, b) == IF a <= b THEN a ELSE b

\* The registry's answer to a page request: how many of its corpus animals
\* fall on page pageNo of numOfRows rows
RegistryPageCount(corpus, pageNo, numOfRows) ==
    Max0(0, Min2(numOfRows, corpus - (pageNo - 1) * numOfRows))

\* GET /api/animals then getAbandonmentAnimals: the number of animals of the
\* page (response.response.body.items?.item || [])
getAbandonmentAnimalsCount(corpus, pageNo, numOfRows) ==
    RegistryPageCount(corpus, pageNo, numOfRows)

\* hasMore with "some animals" taken for "a full page"
allPetsPageAnyItems(pageParam, animalsLength) ==
    [pets |-> animalsLength,
     nextPage |-> pageParam + 1,
     hasMore |-> animalsLength >= 1]

\* The page object useAllPets.queryFn returns (pets stands for the number of
\* converted pets)
allPetsPage(pageParam, animalsLength) ==
    [pets |-> animalsLength,
     nextPage |-> pageParam + 1,
     hasMore |-> animalsLength = 20]

allPetsGetNextPageParam(lastPage) ==
    IF lastPage.hasMore THEN lastPage.nextPage ELSE NoNextPage

\* hasNextPage as the infinite query reports it: false without data
listHasNextPage ==
    /\ listPages # << >>
    /\ hasNextPageOf(allPetsGetNextPageParam(listPages[Len(listPages)]))

listIsFetchingNextPage == listFetch = "next"

\* pets = data?.pages.flatMap(page => page.pets) ?? [] has no element
listNoPets == \A i \in 1..Len(listPages) : listPages[i].pets = 0

\* The query cache is empty and the adoption page is not on screen
ListingInit ==
    /\ fn = "none" /\ arg = << >> /\ ret = << >> /\ done = FALSE
    /\ QueryAtRest
    /\ StoreAtRest
    /\ AuthAtRest
    /\ CareAtRest
    /\ NotificationsAtRest
    /\ HooksAtRest
    /\ listCorpus \in 0..MaxCorpus
    /\ listPages = << >>
    /\ listFetch = "idle"
    /\ listParam = 0
    /\ listStatus = "pending"
    /\ listMounted = FALSE
    /\ listRefetched = << >>

\* The 'fetch' transition of the query, asked for by a mount or a
\* reconnect: without data the first page is fetched (pageParam defaults to
\* 1) and the query goes back to pending, with data the pages held are
\* fetched again from the first and the status stays
ListStartFetch ==
    /\ listFetch' = IF listPages = << >> THEN "first" ELSE "refetch"
    /\ listParam' = 1
    /\ listStatus' = IF listPages = << >> THEN "pending" ELSE listStatus
    /\ listRefetched' = << >>

\* The adoption page mounts: refetchOnMount true makes the query fetch when
\* it has no data or its pages are older than staleTime, unless a fetch is
\* under way already
ListMount(stale) ==
    /\ ~listMounted
    /\ listMounted' = TRUE
    /\ IF listFetch = "idle" /\ (listPages = << >> \/ stale)
       THEN ListStartFetch
       ELSE UNCHANGED <<listFetch, listParam, listStatus, listRefetched>>
    /\ UNCHANGED <<listCorpus, listPages>>
    /\ UNCHANGED otherThanListing

\* The user leaves the adoption page: the query stays in the cache and a
\* fetch under way goes on
ListUnmount ==
    /\ listMounted
    /\ listMounted' = FALSE
    /\ UNCHANGED <<listCorpus, listPages, listFetch, listParam, listStatus,
                   listRefetched>>
    /\ UNCHANGED otherThanListing

\* The browser comes back online while the page is mounted:
\* refetchOnReconnect 'always' makes the query fetch unless it is fetching
ListReconnect ==
    /\ listMounted
    /\ listFetch = "idle"
    /\ ListStartFetch
    /\ UNCHANGED <<listCorpus, listPages, listMounted>>
    /\ UNCHANGED otherThanListing

\* handleLoadMore of the adoption page: fetchNextPage() takes the place of
\* a refetch under way
HandleLoadMore ==
    /\ listMounted
    /\ listHasNextPage /\ ~listIsFetchingNextPage
    /\ listFetch' = "next"
    /\ listParam' = allPetsGetNextPageParam(listPages[Len(listPages)])
    /\ listRefetched' = << >>
    /\ UNCHANGED <<listCorpus, listPages, listStatus, listMounted>>
    /\ UNCHANGED otherThanListing

\* The request of the first or of the next page resolves: queryFn returns
\* the page
ListPageResolves ==
    /\ listFetch \in {"first", "next"}
    /\ LET count == getAbandonmentAnimalsCount(listCorpus, listParam, ListPageSize)
       IN listPages' = Append(listPages, allPetsPage(listParam, count))
    /\ listFetch' = "idle"
    /\ listParam' = 0
    /\ listStatus' = "success"
    /\ UNCHANGED <<listCorpus, listMounted, listRefetched>>
    /\ UNCHANGED otherThanListing

\* A page request of a refetch resolves: the refetch goes on to the next
\* page while getNextPageParam gives one and fewer pages than are held have
\* come back, then its pages take the place of the pages held
ListRefetchResolves ==
    /\ listFetch = "refetch"
    /\ LET count == getAbandonmentAnimalsCount(listCorpus, listParam, ListPageSize)
           page == allPetsPage(listParam, count)
           got == Append(listRefetched, page)
           param == allPetsGetNextPageParam(page)
       IN IF Len(got) < Len(listPages) /\ hasNextPageOf(param)
          THEN /\ listRefetched' = got
               /\ listParam' = param
               /\ UNCHANGED <<listPages, listFetch, listStatus>>
          ELSE /\ listPages' = got
               /\ listRefetched' = << >>
               /\ listFetch' = "idle"
               /\ listParam' = 0
               /\ listStatus' = "success"
    /\ UNCHANGED <<listCorpus, listMounted>>
    /\ UNCHANGED otherThanListing

\* The page request in flight fails for good: the pages held stay
ListPageFails ==
    /\ listFetch # "idle"
    /\ listFetch' = "idle"
    /\ listParam' = 0
    /\ listStatus' = "error"
    /\ listRefetched' = << >>
    /\ UNCHANGED <<listCorpus, listPages, listMounted>>
    /\ UNCHANGED otherThanListing

\* The retry button of the adoption page, shown on an error with no pet to
\* show: window.location.reload() loads the app again, with an empty cache
\* and the page mounted
ListReload ==
    /\ listMounted
    /\ listStatus = "error" /\ listNoPets
    /\ listPages' = << >>
    /\ listFetch' = "first"
    /\ listParam' = 1
    /\ listStatus' = "pending"
    /\ listRefetched' = << >>
    /\ UNCHANGED <<listCorpus, listMounted>>
    /\ UNCHANGED otherThanListing

ListingNext ==
    \/ \E stale \in BOOLEAN : ListMount(stale)
    \/ ListUnmount
    \/ ListReconnect
    \/ HandleLoadMore
    \/ ListPageResolves
    \/ ListRefetchResolves
    \/ ListPageFails
    \/ ListReload

(***************************************************************************)
(* Adapter harness: one pure function of the adapter is applied to one     *)
(* input drawn from a bounded set.                                         *)
(***************************************************************************)

MaxAgePieces == 3
MaxAgeDigits == 8
MaxMonthsText == 119
MaxColorLen == 3
MaxTotalCount == 61
MaxPageNo == 3

\* all concatenations of at most n pieces
RECURSIVE Concats(_, _)
Concats(pieces, n) ==
    IF n = 0 THEN { << >> }
    ELSE LET prev == Concats(pieces, n - 1)
         IN prev \cup {p \o q : p \in prev, q \in pieces}

AgePieces ==
    { <<"2", "0", "2", "0">>, <<"2", "0", "2", "5">>, NyeonSaengParen,
      <<"(", "6", "0", "il", "mi", "man", ")">>, <<"6">>, GaeWol,
      <<"sal">>, <<"nyeon">> }

MonthTexts == {NatText(n) \o GaeWol : n \in 0..MaxMonthsText}

\* Age texts hold no number of more than MaxAgeDigits digits (parseInt is
\* exact on every number of that length)
AgeTexts ==
    {s \in Concats(AgePieces, MaxAgePieces) :
        \A i \in 1..Len(s) : DigitRun(s, i) <= MaxAgeDigits}
    \cup MonthTexts

CurrentYears == {2024, 2025}

\* process states the registry sends, the keywords alone, and texts without
\* any keyword
Closed(reason) == <<"jong", "ryo", "(">> \o reason \o <<")">>

StatusTexts ==
    { <<"bo", "ho", "jung">>, <<"gong", "go", "jung">>,
      Closed(<<"ip", "yang">>), Closed(<<"an", "rak", "sa">>),
      Closed(<<"ja", "yeon", "sa">>), Closed(<<"ban", "hwan">>),
      <<"ip", "yang">>, <<"jong", "ryo">>, <<"an", "rak", "sa">>,
      <<"ja", "yeon", "sa">>, <<"ban", "hwan">>, <<"X">>, << >> }

ColorChars == {"huin", "gal", "saek", " ", "&", "+", ","}

RECURSIVE TextsUpTo(_, _)
TextsUpTo(chars, n) ==
    IF n = 0 THEN { << >> }
    ELSE LET prev == TextsUpTo(chars, n - 1)
         IN prev \cup {Append(s, c) : s \in prev, c \in chars}

ColorTexts == TextsUpTo(ColorChars, MaxColorLen) \cup {undefined}

SampleNo == <<"4", "4", "8", "5", "6", "7">>
SampleKind == <<"mik", "seu", "gyeon">>
SampleKindFull == <<"[", "gae", "]", " ", "mik", "seu", "gyeon">>
SampleAge == <<"2", "0", "2", "0">> \o NyeonSaengParen
SampleColor == <<"huin", "saek", "&", "gal", "saek">>
SampleWeight == <<"3", ".", "5", "(", "K", "g", ")">>
SampleUrl1 == <<"u", "1">>
SampleUrl2 == <<"u", "2">>
SampleDate == <<"2", "0", "2", "4", "0", "1", "0", "2">>

\* raw registry records: every field the adapter calls a method on is present,
\* empty or missing
RawAnimals ==
    [desertionNo : {undefined, << >>, SampleNo},
     kindNm : {undefined, SampleKind},
     kindFullNm : {undefined, SampleKindFull},
     upKindCd : {DOG},
     sexCd : {undefined, <<"M">>},
     age : {undefined, SampleAge},
     processState : {undefined, <<"bo", "ho", "jung">>},
     colorCd : {undefined, SampleColor},
     weight : {undefined, SampleWeight},
     popfile1 : {undefined, SampleUrl1},
     popfile2 : {undefined, SampleUrl1, SampleUrl2},
     neuterYn : {<<"Y">>},
     specialMark : {undefined},
     happenDt : {SampleDate},
     noticeSdt : {undefined}]

Indexes == {0, 12}

SearchResponses ==
    [totalCount : 0..MaxTotalCount, pageNo : 1..MaxPageNo, numOfRows : {10, 20}]

\* Items of a registry page as POST /api/animals reads them: the four texts
\* the keyword is looked up in and the sex code.  The registry leaves out a
\* field that has no value, here specialMark.
MarkedText == <<"A", "b">>
PlainText == <<"x">>
KeywordFields == <<"kindCd", "happenPlace", "specialMark", "careNm">>
PlainItem ==
    [kindCd |-> PlainText, happenPlace |-> PlainText,
     specialMark |-> PlainText, careNm |-> PlainText, sexCd |-> "M"]
SearchItems ==
    {[PlainItem EXCEPT !.sexCd = s] : s \in {"M", "F"}}
    \cup {[PlainItem EXCEPT ![KeywordFields[i]] = MarkedText, !.sexCd = s] :
              i \in 1..Len(KeywordFields), s \in {"M", "F"}}
    \cup {[PlainItem EXCEPT !.specialMark = undefined, !.kindCd = MarkedText],
          [PlainItem EXCEPT !.specialMark = undefined, !.careNm = MarkedText]}

MaxPageItems == 2

RECURSIVE ItemLists(_)
ItemLists(n) ==
    IF n = 0 THEN { << >> }
    ELSE LET prev == ItemLists(n - 1)
         IN prev \cup {Append(l, a) : l \in {p \in prev : Len(p) = n - 1},
                                      a \in SearchItems}

\* The body of the registry's answer: items may be missing, pageNo and
\* numOfRows may be missing (0)
UpstreamBodies ==
    {[hasItems |-> TRUE, item |-> l, pageNo |-> pg.pageNo,
      numOfRows |-> pg.numOfRows] :
        l \in ItemLists(MaxPageItems),
        pg \in {[pageNo |-> 0, numOfRows |-> 0],
                [pageNo |-> 2, numOfRows |-> 10]}}
    \cup {[hasItems |-> FALSE, item |-> << >>, pageNo |-> 1, numOfRows |-> 20]}

\* The body of the request: keyword and sex, each possibly missing or empty
SearchKeywords == {undefined, << >>, <<"a", "B">>, <<"b", "x">>}
SearchSexes == {"", "M", "F"}
SearchRequests == [keyword : SearchKeywords, sex : SearchSexes]

\* One evaluation of the keyword filter's callback on an animal, the four
\* fields tried in the order of the || chain: "true", "false", or "throw"
\* when toLowerCase is called on a missing field
RECURSIVE keywordOutcome(_, _, _)
keywordOutcome(animal, searchKeyword, i) ==
    IF i > Len(KeywordFields) THEN "false"
    ELSE LET v == animal[KeywordFields[i]]
         IN IF v = undefined THEN "throw"
            ELSE IF Includes(toLowerCase(v), searchKeyword) THEN "true"
            ELSE keywordOutcome(animal, searchKeyword, i + 1)

keywordOutcomeWithoutShelter(animal, searchKeyword) ==
    keywordOutcome([animal EXCEPT !.careNm = << >>], searchKeyword, 1)

keywordFilter(animal, searchKeyword) ==
    keywordOutcome(animal, searchKeyword, 1)

PostFailure(message) ==
    [status |-> 500, success |-> FALSE, animals |-> << >>, totalCount |-> 0,
     pageNo |-> 0, numOfRows |-> 0, message |-> message]

\* POST /api/animals: one call of the registry, then the keyword filter and
\* the sex filter over the items of that answer
POST(req, reply, body) ==
    LET r == fetchFromPublicAPI(reply)
        fetched == IF body.hasItems THEN body.item ELSE << >>
        byKeyword == ~Falsy(req.keyword)
        searchKeyword == toLowerCase(req.keyword)
        throws == byKeyword /\ \E i \in 1..Len(fetched) :
                      keywordFilter(fetched[i], searchKeyword) = "throw"
        afterKeyword ==
            IF byKeyword
            THEN SelectSeq(fetched, LAMBDA animal :
                     keywordFilter(animal, searchKeyword) = "true")
            ELSE fetched
        animals ==
            IF req.sex # ""
            THEN SelectSeq(afterKeyword, LAMBDA animal : animal.sexCd = req.sex)
            ELSE afterKeyword
    IN IF r.threw THEN PostFailure(r.message)
       ELSE IF throws THEN PostFailure([text |-> "TypeError", code |-> 0])
       ELSE [status |-> 200, success |-> TRUE, animals |-> animals,
             totalCount |-> Len(animals),
             pageNo |-> IF body.pageNo = 0 THEN 1 ELSE body.pageNo,
             numOfRows |-> IF body.numOfRows = 0 THEN 20 ELSE body.numOfRows,
             message |-> NoMessage]

\* The paging properties of a request body on its way from the search
\* query to the registry; NotSent (0) stands for a property that is not in
\* the object.
NotSent == 0

\* queryFn of useSearchPets: { ...params, page: pageParam, limit: 20 }
searchQueryParams(pageParam) ==
    [page |-> pageParam, limit |-> SearchLimit,
     pageNo |-> NotSent, numOfRows |-> NotSent]

\* searchAnimals: the parameters become the JSON body of the POST as they are
searchAnimalsBody(searchParams) == searchParams

\* POST /api/animals: pageNo = 1 and numOfRows = 20 unless the body has
\* them; page and limit are not read
postRegistryParams(body) ==
    [pageNo |-> IF body.pageNo = NotSent THEN 1 ELSE body.pageNo,
     numOfRows |-> IF body.numOfRows = NotSent THEN 20
                   ELSE body.numOfRows]

\* Filter objects: the properties of an object in the order they were set,
\* each a pair <<name, value>>; no name twice
FilterNames == <<"gender", "keyword", "location", "species">>
FilterValues == {"dog", "undefined"}
MaxFilterLen == 2

RECURSIVE FilterObjectsOf(_)
FilterObjectsOf(n) ==
    IF n = 0 THEN { << >> }
    ELSE LET prev == FilterObjectsOf(n - 1)
         IN prev \cup
            {Append(o, <<FilterNames[i], v>>) :
                o \in {p \in prev : Len(p) = n - 1},
                i \in 1..Len(FilterNames), v \in FilterValues}

NamesOf(o) == {o[i][1] : i \in 1..Len(o)}

FilterObjects ==
    {o \in FilterObjectsOf(MaxFilterLen) : Cardinality(NamesOf(o)) = Len(o)}

petQueryKeysSearchStringified(params) ==
    [scope |-> "search", kind |-> "string", params |-> params]

\* petQueryKeys.search(params): ['pets', 'search', params], the object itself
petQueryKeysSearch(params) ==
    [scope |-> "search", kind |-> "object", params |-> params]

\* the key of useAllPets: ['pets', 'list', filters]
allPetsKey(filters) ==
    [scope |-> "list", kind |-> "object", params |-> filters]

\* JSON.stringify leaves out the properties whose value is undefined
DefinedPair(pair) == pair[2] # "undefined"

\* The properties of an object in the order of their names (the names of the
\* filters in alphabetical order are FilterNames)
RECURSIVE SortedPairs(_, _)
SortedPairs(o, i) ==
    IF i > Len(FilterNames) THEN << >>
    ELSE SelectSeq(o, LAMBDA pair : pair[1] = FilterNames[i])
         \o SortedPairs(o, i + 1)

\* hashKey of the query cache: the JSON text of the key, the properties of
\* every object in it sorted by name; a text in the key is left as it is
hashKey(key) ==
    [scope |-> key.scope,
     text |-> IF key.kind = "object"
              THEN SortedPairs(SelectSeq(key.params, DefinedPair), 1)
              ELSE SelectSeq(key.params, DefinedPair)]

AdapterInit ==
    /\ listCorpus = 0 /\ listPages = << >> /\ listFetch = "idle"
    /\ listParam = 0 /\ listStatus = "pending"
    /\ listMounted = FALSE /\ listRefetched = << >>
    /\ QueryAtRest
    /\ StoreAtRest
    /\ AuthAtRest
    /\ CareAtRest
    /\ NotificationsAtRest
    /\ HooksAtRest
    /\ done = FALSE
    /\ ret = << >>
    /\ \/ fn = "calculateAgeGroup" /\ arg \in [age : AgeTexts, currentYear : CurrentYears]
       \/ fn = "mapAdoptionStatus" /\ arg \in StatusTexts
       \/ fn = "parseColors" /\ arg \in ColorTexts
       \/ fn = "convertAbandonmentAnimalToPet"
          /\ arg \in [animal : RawAnimals, index : Indexes, currentYear : {2024}]
       \/ fn = "searchPage" /\ arg \in SearchResponses
       \/ fn = "getAbandonmentAnimals" /\ arg \in Exchanges
       \/ fn = "queryKey" /\ arg \in [a : FilterObjects, b : FilterObjects]
       \/ fn = "searchQueryFn"
          /\ arg \in [pageParam : 1..MaxPageNo, corpus : 0..MaxTotalCount]
       \/ /\ fn = "POST"
          /\ arg \in {[req |-> req, reply |-> reply, body |-> body] :
                         req \in SearchRequests, reply \in UpstreamReplies,
                         body \in UpstreamBodies}
          /\ fetchFromPublicAPI(arg.reply).threw => ~arg.body.hasItems

ApplyCalculateAgeGroup ==
    /\ fn = "calculateAgeGroup" /\ ~done
    /\ ret' = calculateAgeGroup(arg.age, arg.currentYear)
    /\ done' = TRUE
    /\ UNCHANGED <<fn, arg>>
    /\ UNCHANGED otherThanAdapter

ApplyMapAdoptionStatus ==
    /\ fn = "mapAdoptionStatus" /\ ~done
    /\ ret' = mapAdoptionStatus(arg)
    /\ done' = TRUE
    /\ UNCHANGED <<fn, arg>>
    /\ UNCHANGED otherThanAdapter

ApplyParseColors ==
    /\ fn = "parseColors" /\ ~done
    /\ ret' = parseColors(arg)
    /\ done' = TRUE
    /\ UNCHANGED <<fn, arg>>
    /\ UNCHANGED otherThanAdapter

ApplyConvert ==
    /\ fn = "convertAbandonmentAnimalToPet" /\ ~done
    /\ ret' = convertAbandonmentAnimalToPet(arg.animal, arg.index, arg.currentYear)
    /\ done' = TRUE
    /\ UNCHANGED <<fn, arg>>
    /\ UNCHANGED otherThanAdapter

\* useSearchPets.queryFn on a response of searchAnimals, then getNextPageParam
ApplySearchPage ==
    /\ fn = "searchPage" /\ ~done
    /\ LET page == convertSearchResults(arg.totalCount, arg.pageNo, arg.numOfRows)
       IN ret' = [page |-> page, nextPageParam |-> searchGetNextPageParam(page)]
    /\ done' = TRUE
    /\ UNCHANGED <<fn, arg>>
    /\ UNCHANGED otherThanAdapter

\* getAbandonmentAnimals / searchAnimals: the call of the route through
\* fetchFromInternalAPI, whose error is passed on to the caller
ApplyGetAbandonmentAnimals ==
    /\ fn = "getAbandonmentAnimals" /\ ~done
    /\ ret' = fetchFromInternalAPI(arg.hop, arg.reply)
    /\ done' = TRUE
    /\ UNCHANGED <<fn, arg>>
    /\ UNCHANGED otherThanAdapter

\* useSearchPets(a), useSearchPets(b), useAllPets(a) and useAllPets(b): the
\* cache entries the four keys name
ApplyQueryKey ==
    /\ fn = "queryKey" /\ ~done
    /\ ret' = [searchA |-> hashKey(petQueryKeysSearch(arg.a)),
               searchB |-> hashKey(petQueryKeysSearch(arg.b)),
               listA |-> hashKey(allPetsKey(arg.a)),
               listB |-> hashKey(allPetsKey(arg.b))]
    /\ done' = TRUE
    /\ UNCHANGED <<fn, arg>>
    /\ UNCHANGED otherThanAdapter

\* One run of the query function of useSearchPets for pageParam against a
\* registry of corpus animals that all pass the filters: the page the
\* registry is asked for, which its answer repeats as pageNo and numOfRows;
\* POST /api/animals reports the animals of that page as totalCount
\* (animals.length), and the adapter takes the answer's pageNo as currentPage
searchQueryFn(pageParam, corpus) ==
    LET asked == postRegistryParams(searchAnimalsBody(searchQueryParams(pageParam)))
        animalsLength == RegistryPageCount(corpus, asked.pageNo, asked.numOfRows)
        page == convertSearchResults(animalsLength, asked.pageNo, asked.numOfRows)
    IN [upstream |-> asked, page |-> page,
        nextPageParam |-> searchGetNextPageParam(page)]

ApplySearchQueryFn ==
    /\ fn = "searchQueryFn" /\ ~done
    /\ ret' = searchQueryFn(arg.pageParam, arg.corpus)
    /\ done' = TRUE
    /\ UNCHANGED <<fn, arg>>
    /\ UNCHANGED otherThanAdapter

ApplyPOST ==
    /\ fn = "POST" /\ ~done
    /\ ret' = POST(arg.req, arg.reply, arg.body)
    /\ done' = TRUE
    /\ UNCHANGED <<fn, arg>>
    /\ UNCHANGED otherThanAdapter

AdapterNext ==
    \/ ApplySearchQueryFn
    \/ ApplyPOST
    \/ ApplyQueryKey
    \/ ApplyGetAbandonmentAnimals
    \/ ApplyCalculateAgeGroup
    \/ ApplyMapAdoptionStatus
    \/ ApplyParseColors
    \/ ApplyConvert
    \/ ApplySearchPage

(***************************************************************************)
(* The query functions of the hooks (hooks/use-pets.ts) over one exchange  *)
(* with the registry, and the steps of the query layer                     *)
(***************************************************************************)

\* A page of the registry's answer, as far as the read paths tell pages
\* apart.  Its records are alike: "complete" records have every field the
\* adapter reads and are the animal asked for, "other" ones are a different
\* animal that matches no keyword, "incomplete" ones lack sexCd, "unmarked"
\* ones lack specialMark.  A full page has as many rows as were asked for,
\* another one row.
RegistryPages ==
    {[kind |-> "empty", full |-> FALSE]}
    \cup [kind : {"complete", "other", "incomplete", "unmarked"}, full : BOOLEAN]
NoPage == [kind |-> "none", full |-> FALSE]

PageRows(page, numOfRows) ==
    IF page.kind \in {"empty", "none"} THEN 0
    ELSE IF page.full THEN numOfRows ELSE 1

\* One request seen end to end, with the page of a registry answer 200/"00"
PagedExchanges ==
    {[hop |-> x.hop, reply |-> x.reply, page |-> page] :
        x \in {e \in Exchanges : ~fetchFromInternalAPI(e.hop, e.reply).threw},
        page \in RegistryPages}
    \cup {[hop |-> x.hop, reply |-> x.reply, page |-> NoPage] :
        x \in {e \in Exchanges : fetchFromInternalAPI(e.hop, e.reply).threw}}

OtherNo == <<"1", "2", "3">>
SampleRaw ==
    [desertionNo |-> SampleNo, kindNm |-> SampleKind,
     kindFullNm |-> SampleKindFull, upKindCd |-> DOG, sexCd |-> <<"M">>,
     age |-> SampleAge, processState |-> <<"bo", "ho", "jung">>,
     colorCd |-> SampleColor, weight |-> SampleWeight,
     popfile1 |-> SampleUrl1, popfile2 |-> SampleUrl2, neuterYn |-> <<"Y">>,
     specialMark |-> undefined, happenDt |-> SampleDate,
     noticeSdt |-> undefined]

\* A record of the page as the adapter reads it
PageRaw(page) ==
    IF page.kind = "incomplete" THEN [SampleRaw EXCEPT !.sexCd = undefined]
    ELSE IF page.kind = "other" THEN [SampleRaw EXCEPT !.desertionNo = OtherNo]
    ELSE SampleRaw

\* A record of the page as the keyword filter of POST /api/animals reads it
PageItem(page) ==
    IF page.kind = "unmarked"
    THEN [PlainItem EXCEPT !.specialMark = undefined, !.careNm = MarkedText]
    ELSE IF page.kind = "other" THEN PlainItem
    ELSE [PlainItem EXCEPT !.careNm = MarkedText]

\* query of the search sheet and id of the detail hook
KeywordOf(k) == IF k = "search" THEN <<"a", "B">> ELSE << >>
IdOf(k) == IF k = "detail" THEN SampleNo ELSE << >>

\* The text of a value of the store's filters
FilterText(v) == IF v = "dog" THEN <<"d", "o", "g">> ELSE undefined

\* Boolean(value) of a value of the store's filters; Object.values lists
\* the properties the object has, one set to undefined included
Truthy(v) == v \notin {"absent", "undefined", ""}

\* searchParams of SearchResults: { keyword: query, ...searchFilters }, so a
\* keyword property of the store's filters takes the place of the query,
\* with the value undefined as with any other; the other filters ride along
\* under names the route does not read
searchParamsKeyword(k, filters) ==
    IF filters["keyword"] # "absent" THEN FilterText(filters["keyword"])
    ELSE KeywordOf(k)

\* The enabled option: useSearchPets has !!params.keyword ||
\* Object.values(params).some(Boolean), usePetDetail has !!id, the others
\* have none
enabledWith(k, filters) ==
    IF k \in {"search", "searchNoParams"}
    THEN \/ ~Falsy(searchParamsKeyword(k, filters))
         \/ \E n \in DOMAIN filters : Truthy(filters[n])
    ELSE IF k \in {"detail", "detailNoId"} THEN ~Falsy(IdOf(k))
    ELSE TRUE

enabled(k) == enabledWith(k, searchFilters)

TypeError == [message |-> [text |-> "TypeError", code |-> 0], status |-> NoStatus]

\* What a run of a query function ends in: an error thrown, or a value (null
\* or not) with what the consumers read of it.  swallowed: an error was
\* caught on the way; failed: the HTTP status of the exchange if it failed
Thrown(error) ==
    [threw |-> TRUE, error |-> error, swallowed |-> FALSE, null |-> FALSE,
     empty |-> TRUE, nextPageParam |-> NoNextPage, failed |-> 0]
Returned(isEmpty, nextPageParam) ==
    [threw |-> FALSE, error |-> NoError, swallowed |-> FALSE, null |-> FALSE,
     empty |-> isEmpty, nextPageParam |-> nextPageParam, failed |-> 0]
ReturnedNull(caught, status) ==
    [threw |-> FALSE, error |-> NoError, swallowed |-> caught, null |-> TRUE,
     empty |-> TRUE, nextPageParam |-> NoNextPage, failed |-> status]

\* convertAbandonmentAnimalsToPets: animals.map of the converter throws when
\* one record makes it throw
convertAbandonmentAnimalsToPetsThrows(page, rows) ==
    rows > 0 /\ convertAbandonmentAnimalToPetThrows(PageRaw(page))

\* numOfRows: 8 of the request built by useFeaturedPets.queryFn
FeaturedRows == 8

\* useFeaturedPets.queryFn
featuredQueryFn(hop, reply, page) ==
    LET response == fetchFromInternalAPI(hop, reply)
        rows == PageRows(page, FeaturedRows)
    IN IF response.threw THEN Thrown(response.error)
       ELSE IF convertAbandonmentAnimalsToPetsThrows(page, rows)
       THEN Thrown(TypeError)
       ELSE Returned(rows = 0, NoNextPage)

\* useAllPets.queryFn and getNextPageParam
allPetsQueryFn(pageParam, hop, reply, page) ==
    LET response == fetchFromInternalAPI(hop, reply)
        rows == PageRows(page, ListPageSize)
    IN IF response.threw THEN Thrown(response.error)
       ELSE IF convertAbandonmentAnimalsToPetsThrows(page, rows)
       THEN Thrown(TypeError)
       ELSE Returned(rows = 0,
                     allPetsGetNextPageParam(allPetsPage(pageParam, rows)))

\* useSearchPets.queryFn and getNextPageParam: searchAnimals posts to the
\* route, whose answer the adapter turns into the page
searchPetsQueryFn(keyword, pageParam, hop, reply, page) ==
    LET asked == postRegistryParams(searchAnimalsBody(searchQueryParams(pageParam)))
        rows == PageRows(page, asked.numOfRows)
        body == [hasItems |-> rows > 0,
                 item |-> [i \in 1..rows |-> PageItem(page)],
                 pageNo |-> asked.pageNo, numOfRows |-> asked.numOfRows]
        posted == POST([keyword |-> keyword, sex |-> ""], reply, body)
        response == fetchFromInternalAPIOn(hop, posted)
        lastPage == convertSearchResults(posted.totalCount, posted.pageNo,
                                         posted.numOfRows)
    IN IF response.threw THEN Thrown(response.error)
       ELSE IF convertAbandonmentAnimalsToPetsThrows(page, Len(posted.animals))
       THEN Thrown(TypeError)
       ELSE Returned(Len(posted.animals) = 0,
                     searchGetNextPageParam(lastPage))

\* getAnimalDetail: the first row of the registry is asked for and the
\* animal looked up in the answer; whatever getAbandonmentAnimals throws is
\* caught and null returned in its place
getAnimalDetail(desertionNo, hop, reply, page) ==
    LET response == fetchFromInternalAPI(hop, reply)
        rows == PageRows(page, 1)
    IN IF response.threw THEN [found |-> FALSE, swallowed |-> TRUE]
       ELSE [found |-> rows > 0 /\ PageRaw(page).desertionNo = desertionNo,
             swallowed |-> FALSE]

\* usePetDetail.queryFn: null when the animal was not found, and when the
\* converter throws (caught once more)
petDetailQueryFn(id, hop, reply, page) ==
    LET animalDetail == getAnimalDetail(id, hop, reply, page)
    IN IF animalDetail.swallowed
       THEN ReturnedNull(TRUE, FailureStatus(hop, reply))
       ELSE IF ~animalDetail.found THEN ReturnedNull(FALSE, 0)
       ELSE IF convertAbandonmentAnimalToPetThrows(PageRaw(page))
       THEN ReturnedNull(TRUE, 0)
       ELSE Returned(FALSE, NoNextPage)

\* The query function of the hook of a key, run for a page parameter
queryFn(key, pageParam, hop, reply, page) ==
    IF key \in {"detail", "detailNoId"}
    THEN petDetailQueryFn(IdOf(key), hop, reply, page)
    ELSE IF key \in {"search", "searchNoParams"}
    THEN searchPetsQueryFn(searchParamsKeyword(key, searchFilters),
                           pageParam, hop, reply, page)
    ELSE IF key = "list"
    THEN allPetsQueryFn(pageParam, hop, reply, page)
    ELSE featuredQueryFn(hop, reply, page)

\* The filters the store holds when the hooks mount: none, what an earlier
\* visit left in the persisted item, or the keyword property that
\* setSearchFilters({keyword: undefined}) leaves.  The stored filter is told
\* apart for the search sheet with nothing typed, the undefined keyword for
\* the sheet with a query typed: the hooks whose runs depend on them.
SpeciesStored == [NoFilters EXCEPT !["species"] = "dog"]
KeywordUndefined == [NoFilters EXCEPT !["keyword"] = "undefined"]
StartFilters == {NoFilters, SpeciesStored, KeywordUndefined}

QueryInit ==
    /\ fn = "none" /\ arg = << >> /\ ret = << >> /\ done = FALSE
    /\ searchFilters \in StartFilters
    /\ favorites = << >>
    /\ selectedCategory = "adoption"
    /\ lastCall = NoCall
    /\ storage = IF searchFilters = NoFilters THEN Absent
                 ELSE stringify(partialize(favorites, searchFilters,
                                           selectedCategory))
    /\ AuthAtRest
    /\ CareAtRest
    /\ NotificationsAtRest
    /\ HooksAtRest
    /\ listCorpus = 0 /\ listPages = << >> /\ listFetch = "idle"
    /\ listParam = 0 /\ listStatus = "pending"
    /\ listMounted = FALSE /\ listRefetched = << >>
    /\ cache \in CachesOfOneKey
    /\ searchFilters = SpeciesStored => DOMAIN cache = {"searchNoParams"}
    /\ searchFilters = KeywordUndefined => DOMAIN cache = {"search"}
    /\ net = {}
    /\ nextId = 1
    /\ obs = [o \in Observers |-> Unmounted]
    /\ late = {}

\* A component that uses the hook of key k mounts.  Consumers of a key are
\* interchangeable: they are numbered in the order they mount, and the one
\* that unmounts is taken to be the last.
Mount(o, k) ==
    /\ obs[o].key = "none"
    /\ \A p \in Observers : p < o => obs[p].key # "none"
    /\ IF enabled(k) /\ ShouldFetchOnMount(cache[k])
       THEN QueryFetch(k, FALSE, "none")
       ELSE UNCHANGED <<cache, net, nextId>>
    /\ obs' = Notify(cache', [obs EXCEPT ![o].key = k])
    /\ UNCHANGED <<late, otherThanQuery>>

\* It unmounts; the last one to leave a fetching query cancels its retries
Unmount(o) ==
    /\ obs[o].key # "none"
    /\ \A p \in Observers : p > o => obs[p].key = "none"
    /\ LET k == obs[o].key
       IN cache' = IF ObserversOf(k) = {o} /\ cache[k].fetchStatus = "fetching"
                   THEN [cache EXCEPT ![k].retryCancelled = TRUE]
                   ELSE cache
    /\ obs' = [obs EXCEPT ![o] = Unmounted]
    /\ UNCHANGED <<net, nextId, late, otherThanQuery>>

\* isLoading of a query result: the first fetch is under way
isLoadingOf(view) == view.fetchStatus = "fetching" /\ view.status = "pending"

\* The home page's retry button, shown on an error with no pet to show
\* (featuredPets = data ?? [] is empty) unless the first fetch is under way
RefetchFeatured ==
    /\ "featured" \in DOMAIN cache
    /\ \E o \in ObserversOf("featured") :
          /\ ~(isLoadingOf(obs[o].view) /\ obs[o].view.empty)
          /\ obs[o].view.error # NoError /\ obs[o].view.empty
    /\ QueryFetch("featured", TRUE, "none")
    /\ obs' = Notify(cache', obs)
    /\ UNCHANGED <<late, otherThanQuery>>

\* isFetchingNextPage of an infinite query result
isFetchingNextPageOf(view) ==
    view.fetchStatus = "fetching" /\ view.meta = "forward"

\* The "more" button of the search sheet and of the adoption page: rendered
\* while there is a next page, disabled while a next page is being fetched.
\* The search sheet renders it only next to results (the loading, error and
\* empty branches return before).
FetchNextPageOf(k) ==
    /\ \E o \in ObserversOf(k) :
          /\ k = "search" => ~obs[o].view.empty
          /\ obs[o].view.hasNextPage
          /\ ~isFetchingNextPageOf(obs[o].view)
    /\ QueryFetch(k, TRUE, "forward")
    /\ obs' = Notify(cache', obs)
    /\ UNCHANGED <<late, otherThanQuery>>

FetchNextPage ==
    \E k \in DOMAIN cache \cap {"search", "list"} : FetchNextPageOf(k)

\* The browser comes back online: refetchOnReconnect 'always' makes every
\* query that has a consumer whose hook is enabled fetch, whatever its state
Reconnect(k) ==
    /\ ObserversOf(k) # {}
    /\ enabled(k)
    /\ QueryFetch(k, FALSE, "none")
    /\ obs' = Notify(cache', obs)
    /\ UNCHANGED <<late, otherThanQuery>>

\* staleTime has passed since the data was written
BecomeStale(k) ==
    /\ cache[k].data # 0 /\ ~cache[k].stale
    /\ cache' = [cache EXCEPT ![k].stale = TRUE]
    /\ UNCHANGED <<net, nextId, obs, late, otherThanQuery>>

\* A run of the query function comes back.  The fetch function of an
\* infinite query that is to get more pages, and whose getNextPageParam
\* gives a page for the one that came back, runs the query function for the
\* next page and nothing is written; this goes on in a fetch that was
\* cancelled too, for the query functions read no abort signal.  Otherwise
\* the fetch function has ended: in the pages, or in the error of this run.
Respond(r, hop, reply, page) ==
    /\ r \in net
    /\ \E outcome \in {queryFn(r.key, r.pageParam, hop, reply, page)},
          s \in {cache[r.key]} :
       LET appends == s.meta = "forward" /\ s.data # 0
           allEmpty == r.empty /\ outcome.empty
           goesOn == /\ ~outcome.threw
                     /\ r.index < r.pages
                     /\ hasNextPageOf(outcome.nextPageParam)
       IN
       /\ goesOn => nextId <= MaxRequests
       /\ net' = IF goesOn
                 THEN (net \ {r}) \cup
                      {[r EXCEPT !.id = nextId,
                                 !.pageParam = outcome.nextPageParam,
                                 !.index = r.index + 1,
                                 !.empty = allEmpty]}
                 ELSE net \ {r}
       /\ nextId' = IF goesOn THEN nextId + 1 ELSE nextId
       /\ late' = IF r.gen # s.retryer /\ ~outcome.threw /\ ~goesOn
                  THEN late \cup {r} ELSE late
       /\ cache' =
            IF Superseded(s, r) \/ goesOn THEN cache
            ELSE IF ~outcome.threw
            THEN [cache EXCEPT ![r.key] =
                    [s EXCEPT !.status = "success", !.fetchStatus = "idle",
                              !.data = IF outcome.null THEN Null ELSE r.id,
                              !.empty = IF appends
                                        THEN s.empty /\ outcome.empty
                                        ELSE allEmpty,
                              !.pages = IF appends THEN s.pages + 1
                                        ELSE r.index,
                              !.nextPageParam = outcome.nextPageParam,
                              !.hasNextPage =
                                  hasNextPageOf(outcome.nextPageParam),
                              !.error = NoError,
                              !.failureCount = 0, !.failureReason = NoError,
                              !.waiting = FALSE, !.stale = FALSE,
                              !.cause = 0,
                              !.dataCause = outcome.failed]]
            ELSE IF s.retryCancelled \/ ~retry(s.failureCount, outcome.error)
            THEN [cache EXCEPT ![r.key] =
                    [s EXCEPT !.status = "error", !.fetchStatus = "idle",
                              !.error = outcome.error,
                              !.failureCount = s.failureCount + 1,
                              !.failureReason = outcome.error,
                              !.waiting = FALSE,
                              !.cause = FailureStatus(hop, reply)]]
            ELSE [cache EXCEPT ![r.key] =
                    [s EXCEPT !.failureCount = s.failureCount + 1,
                              !.failureReason = outcome.error,
                              !.waiting = TRUE,
                              !.delay = retryDelay(s.failureCount),
                              !.cause = FailureStatus(hop, reply)]]
    /\ obs' = Notify(cache', obs)
    /\ UNCHANGED otherThanQuery

\* retryDelay has passed: the fetch function runs again from its first page,
\* or the fetch ends in the error if the retries were cancelled meanwhile
RetryFires(k) ==
    LET s == cache[k]
    IN /\ s.fetchStatus = "fetching" /\ s.waiting
       /\ IF s.retryCancelled
          THEN /\ cache' = [cache EXCEPT ![k] =
                              [s EXCEPT !.status = "error",
                                        !.fetchStatus = "idle",
                                        !.error = s.failureReason,
                                        !.failureCount = s.failureCount + 1,
                                        !.waiting = FALSE,
                                        !.delay = 0]]
               /\ UNCHANGED <<net, nextId>>
          ELSE /\ nextId <= MaxRequests
               /\ cache' = [cache EXCEPT ![k].waiting = FALSE, ![k].delay = 0]
               /\ net' = net \cup {FirstRun(k, s, nextId, s.retryer, s.meta)}
               /\ nextId' = nextId + 1
       /\ obs' = Notify(cache', obs)
       /\ UNCHANGED <<late, otherThanQuery>>

QueryNext ==
    \/ \E o \in Observers, k \in DOMAIN cache : Mount(o, k)
    \/ \E o \in Observers : Unmount(o)
    \/ RefetchFeatured
    \/ FetchNextPage
    \/ \E k \in DOMAIN cache : Reconnect(k)
    \/ \E k \in DOMAIN cache : BecomeStale(k)
    \/ \E r \in net, x \in PagedExchanges :
          Respond(r, x.hop, x.reply, x.page)
    \/ \E k \in DOMAIN cache : RetryFires(k)

(***************************************************************************)
(* Specifications.  Each one runs one part of the program and holds the    *)
(* variables of the other parts at rest.                                   *)
(***************************************************************************)

\* A component mounts with one of the hooks; the effect of a debounce hook
\* runs on mount and sets a timeout for the first value
HooksInit ==
    /\ fn = "none" /\ arg = << >> /\ ret = << >> /\ done = FALSE
    /\ listCorpus = 0 /\ listPages = << >> /\ listFetch = "idle"
    /\ listParam = 0 /\ listStatus = "pending"
    /\ listMounted = FALSE /\ listRefetched = << >>
    /\ QueryAtRest
    /\ StoreAtRest
    /\ AuthAtRest
    /\ CareAtRest
    /\ NotificationsAtRest
    /\ hook \in {"useDebounce", "useDebouncedCallback", "useToastDebounce"}
    /\ input \in HookValues
    /\ debounced = input
    /\ timer = IF hook = "useToastDebounce" THEN NoTimer
               ELSE effect(NoTimer, input)
    /\ held = 0 /\ changes = 0
    /\ burstRuns = 0 /\ sinceInvoke = DebounceDelay
    /\ lastToastRef = NoToast
    /\ shownAgo = [m \in Messages |-> -1]
    /\ display = NoDisplay

HooksNext ==
    \/ \E value \in HookValues : InputChanges(value)
    \/ TimerFires
    \/ Invoke
    \/ DebounceTick
    \/ \E kind \in ToastKinds, message \in Messages : Toast(kind, message)
    \/ ToastTick

NotificationInit ==
    /\ fn = "none" /\ arg = << >> /\ ret = << >> /\ done = FALSE
    /\ listCorpus = 0 /\ listPages = << >> /\ listFetch = "idle"
    /\ listParam = 0 /\ listStatus = "pending"
    /\ listMounted = FALSE /\ listRefetched = << >>
    /\ QueryAtRest
    /\ StoreAtRest
    /\ AuthAtRest
    /\ CareAtRest
    /\ HooksAtRest
    /\ notifications = << >>
    /\ unreadCount = 0

NotificationNext ==
    \/ \E list \in NotificationLists(MaxNotifications) : setNotifications(list)
    \/ \E notification \in Notifications : addNotification(notification)
    \/ \E id \in NotificationIds : markAsRead(id)
    \/ markAllAsRead
    \/ \E id \in NotificationIds : removeNotification(id)
    \/ resetNotifications

CareInit ==
    /\ fn = "none" /\ arg = << >> /\ ret = << >> /\ done = FALSE
    /\ listCorpus = 0 /\ listPages = << >> /\ listFetch = "idle"
    /\ listParam = 0 /\ listStatus = "pending"
    /\ listMounted = FALSE /\ listRefetched = << >>
    /\ QueryAtRest
    /\ StoreAtRest
    /\ AuthAtRest
    /\ HooksAtRest
    /\ NotificationsAtRest
    /\ experience = StartExperience
    /\ mood = "bored"
    /\ currentMission = NoMission
    /\ isProcessing = FALSE
    /\ timeouts = {}
    /\ rewards = 0

CareNext ==
    \/ \E id \in MissionIds : generateRandomMission(id)
    \/ handleTouchMission
    \/ \E choice \in MissionChoices(currentMission.id) : handleChoiceMission(choice)
    \/ handlePaymentMission
    \/ \E t \in timeouts : TimeoutFires(t)
    \/ CareTick

StoreInit ==
    /\ fn = "none" /\ arg = << >> /\ ret = << >> /\ done = FALSE
    /\ listCorpus = 0 /\ listPages = << >> /\ listFetch = "idle"
    /\ listParam = 0 /\ listStatus = "pending"
    /\ listMounted = FALSE /\ listRefetched = << >>
    /\ QueryAtRest
    /\ StoreAtRest
    /\ AuthAtRest
    /\ CareAtRest
    /\ NotificationsAtRest
    /\ HooksAtRest

StoreNext ==
    \/ \E petId \in PetIds : toggleFavorite(petId)
    \/ \E filters \in FilterObjects : setSearchFilters(filters)
    \/ clearFilters
    \/ \E category \in Categories : setSelectedCategory(category)
    \/ reset
    \/ Reload
    \/ \E item \in {Absent, NotJson, WrongShape} : Corrupt(item)

SpecAdapter == AdapterInit /\ [][AdapterNext]_vars

SpecListing == ListingInit /\ [][ListingNext]_vars

SpecQuery == QueryInit /\ [][QueryNext]_vars

SpecStore == StoreInit /\ [][StoreNext]_vars

SpecHooks == HooksInit /\ [][HooksNext]_vars

SpecNotification == NotificationInit /\ [][NotificationNext]_vars

SpecCare == CareInit /\ [][CareNext]_vars

\* Time passes and a timeout that is due fires
SpecHooksFair ==
    /\ SpecHooks
    /\ WF_vars(DebounceTick)
    /\ WF_vars(TimerFires)

\* The user comes back to the page and keeps asking for more while more is
\* offered, and the request of a first or next page does not fail for ever
SpecListingFair ==
    /\ SpecListing
    /\ WF_vars(\E stale \in BOOLEAN : ListMount(stale))
    /\ SF_vars(HandleLoadMore)
    /\ SF_vars(ListPageResolves)

(***************************************************************************)
(* Properties of the adapter and of the search pages (SpecAdapter)         *)
(***************************************************************************)

AgeDone == done /\ fn = "calculateAgeGroup"
StatusDone == done /\ fn = "mapAdoptionStatus"
ColorsDone == done /\ fn = "parseColors"
ConvertDone == done /\ fn = "convertAbandonmentAnimalToPet"
SearchPageDone == done /\ fn = "searchPage"
GetAnimalsDone == done /\ fn = "getAbandonmentAnimals"
QueryKeyDone == done /\ fn = "queryKey"
PostDone == done /\ fn = "POST"
SearchQueryDone == done /\ fn = "searchQueryFn"

\* C4: for the search infinite query, with pageSize the page size of the
\* search request (20) and currentPage, totalCount those of the last fetched
\* page: once currentPage * pageSize >= totalCount there is no next page, and a
\* next page is offered only while currentPage * pageSize < totalCount, in
\* which case it is currentPage + 1.
C4_SearchNextPage ==
    SearchPageDone =>
        LET cp == ret.page.currentPage
            tc == ret.page.totalCount
        IN /\ cp * SearchLimit >= tc => ~hasNextPageOf(ret.nextPageParam)
           /\ hasNextPageOf(ret.nextPageParam) =>
                 /\ cp * SearchLimit < tc
                 /\ ret.nextPageParam = cp + 1

\* the second page of a search with exactly two pages' worth of results: the
\* boundary currentPage * pageSize = totalCount, where no page is offered
C4_Witness ==
    /\ SearchPageDone
    /\ ret.page.currentPage = 2
    /\ ret.page.totalCount = 2 * SearchLimit
    /\ ~hasNextPageOf(ret.nextPageParam)

\* C6: convertAbandonmentAnimalToPet returns a Pet for every raw record,
\* missing and empty fields included; it never throws.
C6_AdapterTotal == ConvertDone => ret.threw = FALSE

\* The cascade of age patterns as the claim states it: (a) birth year with a
\* parenthesised detail, (b) plain birth year, (c) bare four-digit year,
\* (d) <n> months, (e) <n> years-old or <n> years but no birth-year word;
\* the first pattern that matches decides, and no match gives 0 and 0.
StatedAge(age, currentYear) ==
    LET withDetails == {i \in 1..Len(age) : BirthYearWithDetailsAt(age, i)}
        simple == {i \in 1..Len(age) : BirthYearSimpleAt(age, i)}
        monthsMatch == MatchDigitsThen(age, GaeWol)
        yearStarts == DigitsThenStarts(age, <<"sal">>)
                         \cup DigitsThenStarts(age, <<"nyeon">>)
    IN IF withDetails # {}
       THEN LET born == parseInt(SubSeq(age, Min(withDetails), Min(withDetails) + 3))
                y == Max0(0, currentYear - born)
                days == MatchDigitsThen(age, IlMiMan)
            IN <<y, IF y = 0 /\ days.matched THEN days.number \div 30 ELSE 0>>
       ELSE IF simple # {}
       THEN <<Max0(0, currentYear - parseInt(SubSeq(age, Min(simple), Min(simple) + 3))), 0>>
       ELSE IF BareYear(age)
       THEN <<Max0(0, currentYear - parseInt(age)), 0>>
       ELSE IF monthsMatch.matched
       THEN <<monthsMatch.number \div 12, monthsMatch.number % 12>>
       ELSE IF yearStarts # {} /\ ~Includes(age, NyeonSaeng)
       THEN <<parseInt(SubSeq(age, Min(yearStarts), Len(age))), 0>>
       ELSE <<0, 0>>

\* C7: age parsing tries the patterns (a) to (e) in order and the first
\* pattern that matches alone decides the result; no match gives years 0 and
\* months 0; "2020(nyeon-saeng)" in 2024 gives 4 years, 0 months, adult and
\* "2025(60 il-mi-man)(nyeon-saeng)" in 2025 gives 0 years, 2 months, puppy.
C7_FirstMatchWins ==
    AgeDone =>
        /\ <<ret.years, ret.months>> = StatedAge(arg.age, arg.currentYear)
        /\ (arg.age = <<"2", "0", "2", "0">> \o NyeonSaengParen /\ arg.currentYear = 2024)
              => ret = [years |-> 4, months |-> 0, ageGroup |-> "adult"]
        /\ (arg.age = <<"2", "0", "2", "5", "(", "6", "0", "il", "mi", "man", ")">>
                         \o NyeonSaengParen
            /\ arg.currentYear = 2025)
              => ret = [years |-> 0, months |-> 2, ageGroup |-> "puppy"]

\* The birth year an age text states: the four digits of the first match of
\* one of the three birth-year patterns (-1 when none matches)
StatedBirthYear(age) ==
    LET withDetails == {i \in 1..Len(age) : BirthYearWithDetailsAt(age, i)}
        simple == {i \in 1..Len(age) : BirthYearSimpleAt(age, i)}
        FourAt(i) == DigitsValue(SubSeq(age, i, i + 3), 4)
    IN IF withDetails # {} THEN FourAt(Min(withDetails))
       ELSE IF simple # {} THEN FourAt(Min(simple))
       ELSE IF BareYear(age) THEN FourAt(1)
       ELSE -1

\* C23: the parsed years and months of every age text are at least 0, and
\* when the text states a birth year the years are the current year minus
\* the birth year, or 0 when the birth year is in the future
C23_AgeNeverNegative ==
    AgeDone =>
        /\ ret.years >= 0
        /\ ret.months >= 0
        /\ StatedBirthYear(arg.age) # -1 =>
              ret.years = IF arg.currentYear >= StatedBirthYear(arg.age)
                          THEN arg.currentYear - StatedBirthYear(arg.age)
                          ELSE 0

\* A birth year after the current year
C23_Witness ==
    /\ AgeDone
    /\ arg.age = <<"2", "0", "2", "5">> \o NyeonSaengParen
    /\ arg.currentYear = 2024
    /\ StatedBirthYear(arg.age) = 2025
    /\ ret.years = 0 /\ ret.months = 0

AgeGroups == {"puppy", "young", "adult", "senior"}

\* C8: the age group is a total function of (years, months): puppy when
\* years = 0 and months < 6, otherwise young when years < 2, otherwise adult
\* when years < 7, otherwise senior; every pair with years >= 0 and months in
\* 0..11 has exactly one of the four groups.
C8_AgeGroupTotal ==
    (AgeDone /\ ret.years >= 0 /\ ret.months \in 0..11) =>
        LET y == ret.years
            m == ret.months
            g == ret.ageGroup
            isPuppy == y = 0 /\ m < 6
        IN /\ g \in AgeGroups
           /\ (g = "puppy") <=> isPuppy
           /\ (g = "young") <=> (~isPuppy /\ y < 2)
           /\ (g = "adult") <=> (y >= 2 /\ y < 7)
           /\ (g = "senior") <=> (y >= 7)

\* six months old: the first age that is no longer a puppy
C8_Witness ==
    /\ AgeDone
    /\ ret.years = 0 /\ ret.months = 6
    /\ ret.ageGroup = "young"

AvailableWords == { <<"bo", "ho", "jung">>, <<"gong", "go", "jung">> }
AdoptedWords == { <<"ip", "yang">>, <<"jong", "ryo">> }
UnavailableWords == { <<"an", "rak", "sa">>, <<"ja", "yeon", "sa">> }

\* C9: a process-state text with an in-shelter or under-notice keyword maps to
\* available, one with an adopted or closed keyword to adopted, one with a
\* euthanized or deceased keyword to unavailable, one with none of them to
\* available.
C9_StatusByKeyword ==
    StatusDone =>
        /\ IncludesAny(arg, AvailableWords) => ret = "available"
        /\ IncludesAny(arg, AdoptedWords) => ret = "adopted"
        /\ IncludesAny(arg, UnavailableWords) => ret = "unavailable"
        /\ ~IncludesAny(arg, AvailableWords \cup AdoptedWords \cup UnavailableWords)
              => ret = "available"

\* C10: the colour list is never empty, whatever the source colour text
\* (absent, empty, blank, separators only); a single "unknown" marker stands
\* in when no colour segment remains.
C10_ColorNeverEmpty ==
    ColorsDone =>
        /\ Len(ret) >= 1
        /\ (arg = undefined
            \/ \A i \in 1..Len(arg) : arg[i] \in ColorSeparators \cup Whitespace)
              => ret = <<MiSang>>

\* C11: a record without a case number (desertionNo absent or empty), whose
\* other fields are all there, is converted to a Pet whose id is the
\* placeholder animal-<index>; the id of a Pet is never empty.
C11_IdFallback ==
    (/\ ConvertDone
     /\ ~estimateSizeFromBreedThrows(OrElse(arg.animal.kindNm, arg.animal.kindFullNm))
     /\ ~mapGenderFromSexCdThrows(arg.animal.sexCd)
     /\ ~calculateAgeGroupThrows(arg.animal.age)
     /\ ~mapAdoptionStatusThrows(arg.animal.processState))
        => /\ ret.threw = FALSE
           /\ Len(ret.id) >= 1
           /\ Falsy(arg.animal.desertionNo)
                 => ret.id = <<"a", "n", "i", "m", "a", "l", "-">> \o NatText(arg.index)

\* C14: when the request reached the route and the route answered with an
\* error message (the registry's result message, its HTTP error, or the
\* failure of the route's own fetch), the error raised to the caller of
\* getAbandonmentAnimals / searchAnimals carries that message
C14_UpstreamMessageKept ==
    (GetAnimalsDone /\ arg.hop = 0 /\ RouteGET(arg.reply).message # NoMessage)
        => /\ ret.threw
           /\ ret.error.message = RouteGET(arg.reply).message

\* The two objects hold the same name-value pairs
SamePairs(a, b) == {a[i] : i \in 1..Len(a)} = {b[i] : i \in 1..Len(b)}

\* C18: the keys built from two filter objects that hold the same pairs,
\* set in whatever order, name the same cache entry, for the search key and
\* for the list key
C18_KeyStable ==
    (QueryKeyDone /\ SamePairs(arg.a, arg.b))
        => (ret.searchA = ret.searchB /\ ret.listA = ret.listB)

\* Two objects with the same two pairs set in opposite orders
C18_Witness ==
    /\ QueryKeyDone
    /\ SamePairs(arg.a, arg.b)
    /\ Len(arg.a) = 2
    /\ arg.a # arg.b
    /\ ret.searchA = ret.searchB

\* The keyword is a substring, letter case aside, of one of the four texts
\* of the animal
MatchesKeyword(animal, keyword) ==
    \E i \in 1..Len(KeywordFields) :
        /\ animal[KeywordFields[i]] # undefined
        /\ Includes(toLowerCase(animal[KeywordFields[i]]), toLowerCase(keyword))

PassesFilters(animal, req) ==
    /\ req.keyword # undefined => MatchesKeyword(animal, req.keyword)
    /\ req.sex # "" => animal.sexCd = req.sex

\* C19: in a successful response of POST /api/animals every animal is an item
\* of the fetched page that passes the keyword filter and the sex filter, every
\* item of the page that passes both is returned, and totalCount is the number
\* of animals returned
C19_FiltersFetchedPage ==
    (PostDone /\ ret.success) =>
        LET page == {arg.body.item[i] : i \in 1..Len(arg.body.item)}
            returned == {ret.animals[i] : i \in 1..Len(ret.animals)}
        IN /\ returned \subseteq page
           /\ \A animal \in returned : PassesFilters(animal, arg.req)
           /\ \A animal \in page :
                  PassesFilters(animal, arg.req) => animal \in returned
           /\ ret.totalCount = Len(ret.animals)

\* A page of two items, a keyword in other letter case and a sex: one item
\* is returned, the other is not
C19_Witness ==
    /\ PostDone /\ ret.success
    /\ arg.req.keyword = <<"a", "B">>
    /\ arg.req.sex = "F"
    /\ Len(arg.body.item) = 2
    /\ Len(ret.animals) = 1
    /\ ret.totalCount = 1

\* C27: the page fetched for pageParam = k is the page k of the registry
C27_PageReachesRegistry ==
    SearchQueryDone =>
        (ret.upstream.pageNo = arg.pageParam
         /\ ret.page.currentPage = arg.pageParam)

\* C12: a non-empty image list begins with the entry marked main, and no
\* other entry is marked main, whichever of the two image fields are there
C12_FirstImageMain ==
    (ConvertDone /\ ret.threw = FALSE /\ ret.images # << >>)
        => /\ ret.images[1].isMain
           /\ \A i \in 2..Len(ret.images) : ~ret.images[i].isMain

(***************************************************************************)
(* Properties of the full listing (SpecListingFair)                        *)
(***************************************************************************)

C5_Exact ==
    listPages # << >> =>
        (listHasNextPage <=> listPages[Len(listPages)].pets = ListPageSize)

C5_Ended == listPages # << >> /\ ~listHasNextPage

\* C5: in the full listing a next page is offered exactly when the last
\* fetched page holds as many animals as the requested page size (20); with
\* a finite corpus, asking for the next page while one is offered ends with
\* no page offered, and after that no further page is requested: no
\* next-page request is issued and the listing does not grow.
C5_ListingTerminates ==
    /\ []C5_Exact
    /\ [][C5_Ended => (listFetch' # "next" /\ listParam' <= Len(listPages)
                         /\ Len(listPages') <= Len(listPages))]_vars
    /\ <>[](~listHasNextPage)

\* a third page was asked for and came back short: the listing has ended
C5_Witness ==
    /\ Len(listPages) = 3
    /\ listPages[1].pets = ListPageSize
    /\ listPages[2].pets = ListPageSize
    /\ listPages[3].pets < ListPageSize
    /\ ~listHasNextPage
    /\ listFetch = "idle"

(***************************************************************************)
(* Properties of the query layer (SpecQuery)                               *)
(***************************************************************************)

\* C1: when a run of the query function comes back that is older than the
\* run whose result the cache holds for the key (it was issued first and
\* answered last), the cache keeps the result it holds
C1_LateResponseIgnored ==
    [][\A r \in net :
          (r \notin net' /\ cache[r.key].data > r.id)
              => cache'[r.key].data = cache[r.key].data]_vars

\* A superseded run came back with data after the newer run, nothing is in
\* flight any more and the cache holds the newer result
C1_Witness ==
    \E r \in late : cache[r.key].data > r.id /\ InFlight(r.key) = {}

\* While no data is cached for a key at most one run is in flight for it, a
\* fetching query that is not between two runs has exactly one run of its
\* own in flight, and the consumers of a key all render the same
C2_OneRequest ==
    \A k \in DOMAIN cache :
        /\ cache[k].data = 0 => Cardinality(InFlight(k)) <= 1
        /\ (cache[k].fetchStatus = "fetching" /\ ~cache[k].waiting)
              => Cardinality({r \in InFlight(k) : r.gen = cache[k].retryer}) = 1
        /\ \A o1 \in ObserversOf(k), o2 \in ObserversOf(k) :
              obs[o1].view = obs[o2].view

\* A consumer that mounts on a key that is being fetched issues no run
C2_MountJoins ==
    \A o \in Observers, k \in DOMAIN cache :
        (obs[o].key = "none" /\ obs'[o].key = k
            /\ cache[k].fetchStatus = "fetching") => net' = net

\* C2: consumers that subscribe to a key with no fresh data share one run
\* of the query function, and all of them observe its outcome
C2_Deduplicated == []C2_OneRequest /\ [][C2_MountJoins]_vars

\* Two consumers of a key with no data, and the only run ever issued is the
\* one in flight
C2_Witness ==
    \E k \in DOMAIN cache :
        /\ Cardinality(ObserversOf(k)) >= 2
        /\ cache[k].data = 0
        /\ cache[k].fetchStatus = "fetching"
        /\ Cardinality(InFlight(k)) = 1
        /\ nextId = 2

\* C3: once a run has failed on an HTTP status 401, 403 or 404 the fetch is
\* over and the query is in the error state: no retry is pending
C3_NoRetryOnClientError ==
    \A k \in DOMAIN cache :
        (cache[k].cause = 401 \/ cache[k].cause = 403 \/ cache[k].cause = 404)
            => (cache[k].fetchStatus = "idle" /\ cache[k].status = "error")

\* C13: the data a query holds never stems from a registry answer with
\* HTTP status 200 and a result code other than "00": such an answer is a
\* failure of the read, on every read path
C13_ResultCodeIsError ==
    \A k \in DOMAIN cache : cache[k].dataCause # 200

\* C15: a query in the error state stays there: a fetch begins for it only
\* by a manual refetch (the retry button, the "more" button), never by a
\* consumer that mounts, a reconnect or another automatic trigger
C15_ErrorIsTerminal ==
    [][\A k \in DOMAIN cache :
          (/\ cache[k].status = "error"
           /\ cache[k].fetchStatus = "idle"
           /\ cache'[k].fetchStatus = "fetching")
              => (RefetchFeatured \/ FetchNextPage)]_vars

\* C16: the data a consumer sees of a query that holds a result stays that
\* result while a refetch runs and when it fails; it changes only to the
\* result of a run that came back, and is never empty in between
C16_StaleWhileRevalidate ==
    [][\A o \in Observers :
          (/\ obs[o].key # "none"
           /\ obs'[o].key = obs[o].key
           /\ obs[o].view.data > 0)
              => \/ obs'[o].view.data = obs[o].view.data
                 \/ /\ obs'[o].view.data > 0
                    /\ obs'[o].view.status = "success"
                    /\ \E r \in net \ net' : r.id = obs'[o].view.data]_vars

\* C17: a fetch makes at most MAX_RETRIES = 3 retries: a query that is
\* fetching has failed at most 3 times and the fourth failure leaves it in
\* the error state; the sleep before retry n (n = 0, 1, 2, ...) lasts
\* min(1000 * 2^n, 30000) ms, which never decreases and never exceeds 30 s
C17_RetryBackoff ==
    /\ \A k \in DOMAIN cache :
          /\ cache[k].failureCount <= 4
          /\ cache[k].fetchStatus = "fetching" => cache[k].failureCount <= 3
          /\ cache[k].failureCount = 4
                => (cache[k].status = "error" /\ cache[k].fetchStatus = "idle")
          /\ cache[k].waiting
                => /\ cache[k].failureCount >= 1
                   /\ cache[k].delay = 1000 * Pow(2, cache[k].failureCount - 1)
          /\ cache[k].delay <= 30000
    /\ \A n \in 0..MaxAttemptIndex :
          /\ retryDelay(n) = (IF 1000 * Pow(2, n) <= 30000
                              THEN 1000 * Pow(2, n) ELSE 30000)
          /\ retryDelay(n) <= retryDelay(n + 1)

\* A consumer is mounted on a query that went through all three retries and
\* is in the error state after four runs
C17_Witness ==
    \E k \in DOMAIN cache :
        /\ ObserversOf(k) # {}
        /\ cache[k].status = "error"
        /\ cache[k].fetchStatus = "idle"
        /\ cache[k].failureCount = MAX_RETRIES + 1
        /\ nextId = 5

(***************************************************************************)
(* Pet store properties                                                    *)
(***************************************************************************)

\* C20: toggleFavorite(id) flips the membership of id in favorites and leaves
\* the membership of every other id, the search filters and the selected
\* category as they were; toggling the same id twice restores its
\* membership; isFavorite(id) is true exactly when id is in favorites
C20_ToggleFlips ==
    /\ [](\A id \in PetIds :
            /\ isFavorite(id) <=> id \in {favorites[i] : i \in 1..Len(favorites)}
            /\ includes(favoritesToggled(favoritesToggled(favorites, id), id), id)
                   <=> includes(favorites, id))
    /\ [][\A id \in PetIds :
            toggleFavorite(id) =>
                /\ isFavorite(id)' <=> ~isFavorite(id)
                /\ \A other \in PetIds \ {id} :
                       isFavorite(other)' <=> isFavorite(other)
                /\ searchFilters' = searchFilters
                /\ selectedCategory' = selectedCategory]_vars

\* A favorite has just been toggled off, with another favorite, a filter and
\* the posts category in place
C20_Witness ==
    /\ lastCall.op = "toggleFavorite"
    /\ lastCall.was
    /\ ~isFavorite(lastCall.petId)
    /\ Len(favorites) = 1
    /\ searchFilters # NoFilters
    /\ selectedCategory = "posts"

\* C21: when the app is loaded again from the item the store wrote, the
\* search filters, the favorites and the selected category are what they
\* were before the reload, whatever mutations of the store came before
C21_PersistRoundTrip ==
    [][(Reload /\ lastCall.op \notin {"none", "reload", "corrupt"})
          => /\ favorites' = favorites
             /\ searchFilters' = searchFilters
             /\ selectedCategory' = selectedCategory]_vars

\* The part of C21 that holds: the favorites, the selected category and
\* every filter that has a value come back as they were, and a filter
\* property whose value is undefined comes back as no property
C21_DefinedValuesRoundTrip ==
    [][(Reload /\ lastCall.op \notin {"none", "reload", "corrupt"})
          => /\ favorites' = favorites
             /\ selectedCategory' = selectedCategory
             /\ \A n \in StoreFilterNames :
                    searchFilters'[n] = IF searchFilters[n] = "undefined"
                                        THEN "absent" ELSE searchFilters[n]]_vars

\* C22: loaded with an item that is absent or malformed, the store is in
\* its initial state
C22_FallsBackToInitial ==
    (lastCall.op = "reload" /\ storage \in {Absent, NotJson, WrongShape})
        => /\ favorites = << >>
           /\ searchFilters = NoFilters
           /\ selectedCategory = "adoption"

\* The part of C22 that holds: an item that is absent or not JSON
C22_FallsBackUnlessJson ==
    (lastCall.op = "reload" /\ storage \in {Absent, NotJson})
        => /\ favorites = << >>
           /\ searchFilters = NoFilters
           /\ selectedCategory = "adoption"

(***************************************************************************)
(* Debounce hook properties                                                *)
(***************************************************************************)

\* C24: the debounced value changes only to the value the input has, and
\* only when the input has been that value for the delay; once the input
\* stops changing the debounced value becomes the input and stays it
C24_Debounced ==
    /\ [][debounced' # debounced
            => (debounced' = input /\ held >= DebounceDelay)]_vars
    /\ (hook = "useDebounce" => <>[](debounced = input))

\* The input changed three times and its last value, held for the delay,
\* was emitted
C24_Witness ==
    /\ hook = "useDebounce"
    /\ changes = 3
    /\ held >= DebounceDelay
    /\ timer = NoTimer
    /\ debounced = input

\* C25: two displays of the same message are never less than the delay apart
C25_NoRepeatedToast ==
    display.gap = -1 \/ display.gap >= ToastDelay

\* C26: the callback runs at most once for a burst of invocations
C26_OncePerBurst ==
    burstRuns <= 1

(***************************************************************************)
(* Notification store properties                                           *)
(***************************************************************************)

\* C28: unreadCount is the number of notifications of the list that are not
\* read, and is never negative
C28_UnreadCountExact ==
    /\ unreadCount = Unread(notifications)
    /\ unreadCount >= 0

\* The part of C28 that holds: the counter is never negative
C28_UnreadCountNotNegative == unreadCount >= 0

(***************************************************************************)
(* Virtual care game properties                                            *)
(***************************************************************************)

\* C29: the mission on screen raises pet.experience at most once
C29_RewardOnce == rewards <= 1

(***************************************************************************)
(* Auth store: sign-in, sign-out and the modal switches                    *)
(***************************************************************************)
AuthInit ==
    /\ fn = "none" /\ arg = << >> /\ ret = << >> /\ done = FALSE
    /\ listCorpus = 0 /\ listPages = << >> /\ listFetch = "idle"
    /\ listParam = 0 /\ listStatus = "pending"
    /\ listMounted = FALSE /\ listRefetched = << >>
    /\ QueryAtRest
    /\ StoreAtRest
    /\ HooksAtRest
    /\ NotificationsAtRest
    /\ CareAtRest
    /\ AuthAtRest

AuthNext ==
    \/ \E session \in UserIds \cup {"none"} : InitializeAuthResolves(session)
    \/ \E remember \in BOOLEAN : login(remember)
    \/ \E u \in UserIds : LoginSucceeds(u)
    \/ \E call \in {"signInWithPassword", "signInWithSocial"} : LoginFails(call)
    \/ loginWithSocial
    \/ SocialRedirects
    \/ register
    \/ resetAuth
    \/ \E e \in {"null", "message"} : setError(e)
    \/ \E u \in UserIds : OnSignedIn(u)
    \/ \E u \in UserIds : OnAuthCallback(u)
    \/ logout
    \/ LogoutCompletes
    \/ OnSignedOut
    \/ showLogin
    \/ hideLogin
    \/ showRegister
    \/ hideRegister
    \/ toggleRememberMe
    \/ \E loading \in BOOLEAN : setLoading(loading)
    \/ AuthReload

SpecAuth == AuthInit /\ [][AuthNext]_vars

\* C30: once logout() has completed and the SIGNED_OUT event has been
\* handled, in whichever order, the store holds no user: isAuthenticated is
\* false, user is null and role is null
C30_SignedOutHoldsNoUser ==
    (logoutCall = "completed" /\ signedOut = "handled")
        => /\ isAuthenticated = initialState.isAuthenticated
           /\ user = initialState.user
           /\ role = initialState.role

\* the part of C30 that the code does keep: in that state nobody is
\* authenticated
C30_SignedOutNotAuthenticated ==
    (logoutCall = "completed" /\ signedOut = "handled")
        => isAuthenticated = FALSE

\* the order in which C30 does hold: the handler ran before logout() reset
\* the store
C30_ResetLast ==
    [][(LogoutCompletes /\ signedOut = "handled")
          => (isAuthenticated' = FALSE /\ user' = "null" /\ role' = "null")]_vars

====
